---- MODULE Spec2Model ----
(***************************************************************************)
(* DevFlow CLI (ai_first/tools/devflow/cli): test-case extraction,         *)
(* identity normalisation, stub synthesis and result aggregation.          *)
(*                                                                         *)
(* Text is modelled as a sequence of one-character strings, so that the    *)
(* regular expressions and the str methods of the source are computed      *)
(* character by character.                                                 *)
(***************************************************************************)
EXTENDS Integers, Sequences, FiniteSets, TLC

VARIABLES
    \* --- identity normaliser (SpecNorm) ---
    spelling,   \* the id spelling under normalisation: [marker, sep, digits, suffix, text]
    parsed,     \* ids of the records the parsers return for the spelling, or Pending
    mapped,     \* result of _tc_id_from_case on the spelling, or Pending
    \* --- result aggregation (SpecAgg) ---
    junit,      \* the cases _junit_parse returns for the result file
    cmd,        \* the command that has run: "none", "post_tests_tc", "post_tests_table", "fix_failures"
    agg,        \* the aggregated mapping the command built (id -> row)
    \* --- stub synthesis (SpecStub) ---
    fs,         \* the stub files under TESTS_ROOT: path -> content
    before,     \* the stub files as the last _ensure_tests_for_issue call found them
    calls,      \* history of _ensure_tests_for_issue calls: arguments, cases, result
    \* --- posting to the tracker (SpecPost) ---
    posting,    \* the command that has run and its inputs
    comments,   \* the comments POSTed to the issue, in order
    \* --- result file parsing (SpecJunit) ---
    jfile,      \* the result file <issue_key>.junit.xml
    jres,       \* the outcome of _junit_parse on it
    \* --- document flattening (SpecAdf) ---
    doc,        \* the node handed to flatten_adf
    flat,       \* the outcome of flatten_adf on it
    \* --- test-case parsers (SpecParse) ---
    intext,     \* the text handed to a parser
    recs,       \* the parser that has run, the records and the lines they used
    \* --- section extraction (SpecSection) ---
    stext,      \* the description text handed to _extract_section
    section,    \* the keys asked for and the section returned
    \* --- test runs (SpecRun) ---
    pyrun,      \* what the runner does on its first and on a second invocation
    runlog      \* the command that has run, the runner invocations and the report

vars == <<spelling, parsed, mapped, junit, cmd, agg, fs, before, calls,
          posting, comments, jfile, jres, doc, flat, intext, recs,
          stext, section, pyrun, runlog>>

normVars  == <<spelling, parsed, mapped>>
aggVars   == <<junit, cmd, agg>>
stubVars  == <<fs, before, calls>>
postVars  == <<posting, comments>>
junitVars == <<jfile, jres>>
adfVars   == <<doc, flat>>
parseVars == <<intext, recs>>
sectVars  == <<stext, section>>
runVars   == <<pyrun, runlog>>
restVars  == <<stext, section, pyrun, runlog>>
laterVars == <<posting, comments, jfile, jres, doc, flat, intext, recs,
               stext, section, pyrun, runlog>>
earlyVars == <<spelling, parsed, mapped, junit, cmd, agg, fs, before, calls>>

\* the variables of a specification that does not run
PostIdle  == posting = <<>> /\ comments = <<>>
JunitIdle == jfile = <<>> /\ jres = <<>>
AdfIdle   == doc = <<>> /\ flat = <<>>
ParseIdle == intext = <<>> /\ recs = <<>>
SectIdle  == stext = <<>> /\ section = <<>>
RunIdle   == pyrun = <<>> /\ runlog = <<>>
RestIdle  == SectIdle /\ RunIdle
LaterIdle == PostIdle /\ JunitIdle /\ AdfIdle /\ ParseIdle /\ RestIdle

-----------------------------------------------------------------------------
(* Characters and the str methods the source uses *)

LowerAlpha == <<"a","b","c","d","e","f","g","h","i","j","k","l","m",
                "n","o","p","q","r","s","t","u","v","w","x","y","z">>
UpperAlpha == <<"A","B","C","D","E","F","G","H","I","J","K","L","M",
                "N","O","P","Q","R","S","T","U","V","W","X","Y","Z">>
Digit == {"0","1","2","3","4","5","6","7","8","9"}

Range(s) == {s[i] : i \in DOMAIN s}

LowerSet == Range(LowerAlpha)
UpperSet == Range(UpperAlpha)
LowerOf == [c \in UpperSet |-> LowerAlpha[CHOOSE i \in DOMAIN UpperAlpha : UpperAlpha[i] = c]]
UpperOf == [c \in LowerSet |-> UpperAlpha[CHOOSE i \in DOMAIN LowerAlpha : LowerAlpha[i] = c]]

IsLowerCh(c) == c \in LowerSet
IsUpperCh(c) == c \in UpperSet
IsDigit(c) == c \in Digit
\* \w of the re module (ASCII part)
IsWord(c) == IsLowerCh(c) \/ IsUpperCh(c) \/ IsDigit(c) \/ c = "_"
\* \s of the re module, and the characters str.strip() removes
IsSpace(c) == c \in {" ", "\t", "\n"}

LowerCh(c) == IF IsUpperCh(c) THEN LowerOf[c] ELSE c
UpperCh(c) == IF IsLowerCh(c) THEN UpperOf[c] ELSE c

\* str.lower(), str.upper()
Lower(s) == [i \in DOMAIN s |-> LowerCh(s[i])]
Upper(s) == [i \in DOMAIN s |-> UpperCh(s[i])]

\* s[a:b] with 1-based inclusive bounds; empty when a > b
Slice(s, a, b) == IF a > b THEN <<>> ELSE SubSeq(s, a, b)

\* first index >= i of a non-space character, Len(s) + 1 if none
RECURSIVE SkipSpaces(_, _)
SkipSpaces(s, i) ==
    IF i <= Len(s) /\ IsSpace(s[i]) THEN SkipSpaces(s, i + 1) ELSE i

\* last index <= i of a non-space character, 0 if none
RECURSIVE SkipSpacesBack(_, _)
SkipSpacesBack(s, i) ==
    IF i >= 1 /\ IsSpace(s[i]) THEN SkipSpacesBack(s, i - 1) ELSE i

\* str.strip()
Strip(s) == Slice(s, SkipSpaces(s, 1), SkipSpacesBack(s, Len(s)))

\* str.replace(a, b) for single characters a, b
ReplaceCh(s, a, b) == [i \in DOMAIN s |-> IF s[i] = a THEN b ELSE s[i]]

\* re.sub(r"\D", "", s)
RECURSIVE DigitsOf(_)
DigitsOf(s) ==
    IF s = <<>> THEN <<>>
    ELSE IF IsDigit(Head(s)) THEN <<Head(s)>> \o DigitsOf(Tail(s))
    ELSE DigitsOf(Tail(s))

\* str.zfill(w) on a digit string
RECURSIVE ZFill(_, _)
ZFill(s, w) == IF Len(s) >= w THEN s ELSE ZFill(<<"0">> \o s, w)

\* Index just past the run of characters satisfying a class, starting at i
RECURSIVE DigitRunEnd(_, _)
DigitRunEnd(s, i) ==
    IF i <= Len(s) /\ IsDigit(s[i]) THEN DigitRunEnd(s, i + 1) ELSE i

\* first index >= i holding the character c, 0 if none
IndexOf(s, c, i) ==
    LET hits == {k \in i..Len(s) : s[k] = c}
    IN  IF hits = {} THEN 0 ELSE CHOOSE k \in hits : \A j \in hits : k <= j

\* str.splitlines(): split at "\n", no trailing empty line
RECURSIVE SplitLines(_)
SplitLines(s) ==
    IF s = <<>> THEN <<>>
    ELSE LET k == IndexOf(s, "\n", 1)
         IN  IF k = 0 THEN <<s>>
             ELSE <<Slice(s, 1, k - 1)>> \o SplitLines(Slice(s, k + 1, Len(s)))

\* "\n".join(parts)
RECURSIVE JoinLines(_)
JoinLines(parts) ==
    IF parts = <<>> THEN <<>>
    ELSE IF Len(parts) = 1 THEN parts[1]
    ELSE parts[1] \o <<"\n">> \o JoinLines(Tail(parts))

\* Python's None, and "not yet computed"; one-element sequences so that they
\* compare with text
None == <<"<None>">>
Pending == <<"<Pending>">>
PendingIds == <<Pending>>

-----------------------------------------------------------------------------
(* Test-case identity *)

\* The id normalisation the three parsers share:
\*   digits = re.sub(r"\D", "", tc_raw)
\*   tcid = f"TC-{digits.zfill(3)}" if digits else tc_raw.upper()
NormalizeTcIdNoPad(tc_raw) ==
    LET digits == DigitsOf(tc_raw)
    IN  IF digits # <<>> THEN <<"T","C","-">> \o digits ELSE Upper(tc_raw)

NormalizeTcId(tc_raw) ==
    LET digits == DigitsOf(tc_raw)
    IN  IF digits # <<>> THEN <<"T","C","-">> \o ZFill(digits, 3) ELSE Upper(tc_raw)

\* Length of the match of TC[-_ ]?\d+ (IGNORECASE) at index i of s, 0 if none.
TcTokenLen(s, i) ==
    IF i + 1 <= Len(s) /\ LowerCh(s[i]) = "t" /\ LowerCh(s[i + 1]) = "c"
    THEN LET j == IF i + 2 <= Len(s) /\ s[i + 2] \in {"-", "_", " "}
                     /\ DigitRunEnd(s, i + 3) > i + 3
                  THEN i + 3 ELSE i + 2
             k == DigitRunEnd(s, j)
         IN  IF k > j THEN k - i ELSE 0
    ELSE 0

\* _tc_id_from_case: the match of r"\btc[-_]?([0-9]{1,})\b" that starts at index i
\* of the lower-cased text: its digits, or <<>> when there is no match at i.
TcCaseDigitsAt(text, i) ==
    IF /\ i + 1 <= Len(text)
       /\ text[i] = "t" /\ text[i + 1] = "c"
       /\ (i = 1 \/ ~IsWord(text[i - 1]))
    THEN LET j == IF i + 2 <= Len(text) /\ text[i + 2] \in {"-", "_"}
                  THEN i + 3 ELSE i + 2
             k == DigitRunEnd(text, j)
         IN  IF k > j /\ (k > Len(text) \/ ~IsWord(text[k]))
             THEN Slice(text, j, k - 1) ELSE <<>>
    ELSE <<>>

_tc_id_from_case(name, cls) ==
    LET text == Lower(cls \o <<":", ":">> \o name)
        hits == {i \in DOMAIN text : TcCaseDigitsAt(text, i) # <<>>}
    IN  IF hits = {} THEN None
        ELSE LET m == CHOOSE i \in hits : \A j \in hits : i <= j
                 digits == TcCaseDigitsAt(text, m)
             IN  <<"T","C","-">> \o (IF Len(digits) < 3 THEN ZFill(digits, 3) ELSE digits)

-----------------------------------------------------------------------------
(* Test-case table parsers *)

TestCase(id, scenario, steps, expected) ==
    [id |-> id, scenario |-> scenario, steps |-> steps, expected |-> expected]

\* Smallest index >= i holding "|", or 0
NextPipe(s, i) == IndexOf(s, "|", i)

CountCh(s, c) == Cardinality({k \in DOMAIN s : s[k] = c})

\* TEST_TABLE_ROW.match(row) and the record built from its groups:
\* <<record>> on a match, <<>> otherwise.
\*   ^\s*(TC[-_ ]?\d+)\s*\|\s*(.*?)\s*\|\s*(.*?)\s*\|\s*(.*?)\s*$
TableRow(row) ==
    LET a  == SkipSpaces(row, 1)
        n  == TcTokenLen(row, a)
        p1 == SkipSpaces(row, a + n)
    IN  IF n = 0 \/ p1 > Len(row) \/ row[p1] # "|" THEN <<>>
        ELSE LET p2 == NextPipe(row, p1 + 1)
                 p3 == IF p2 = 0 THEN 0 ELSE NextPipe(row, p2 + 1)
             IN  IF p3 = 0 THEN <<>>
                 ELSE <<TestCase(NormalizeTcId(Slice(row, a, a + n - 1)),
                                 Strip(Slice(row, p1 + 1, p2 - 1)),
                                 Strip(Slice(row, p2 + 1, p3 - 1)),
                                 Strip(Slice(row, p3 + 1, Len(row))))>>

\* [l.strip() for l in text.splitlines() if l.strip()]
RECURSIVE StrippedNonBlank(_)
StrippedNonBlank(ls) ==
    IF ls = <<>> THEN <<>>
    ELSE IF Strip(Head(ls)) = <<>> THEN StrippedNonBlank(Tail(ls))
    ELSE <<Strip(Head(ls))>> \o StrippedNonBlank(Tail(ls))

\* line.lower().startswith("id") and line.count("|") >= 3
IsTableHeader(line) ==
    /\ Len(line) >= 2
    /\ LowerCh(line[1]) = "i" /\ LowerCh(line[2]) = "d"
    /\ CountCh(line, "|") >= 3

\* the inner loop: for row in lines[i+1:]
RECURSIVE TableRowsFrom(_, _)
TableRowsFrom(lines, k) ==
    IF k > Len(lines) THEN <<>>
    ELSE TableRow(lines[k]) \o TableRowsFrom(lines, k + 1)

\* the outer loop: for i, line in enumerate(lines)
RECURSIVE TableScan(_, _)
TableScan(lines, i) ==
    IF i > Len(lines) THEN <<>>
    ELSE (IF IsTableHeader(lines[i]) THEN TableRowsFrom(lines, i + 1) ELSE <<>>)
         \o TableScan(lines, i + 1)

_parse_test_table(text) ==
    IF text = <<>> THEN <<>>
    ELSE TableScan(StrippedNonBlank(SplitLines(text)), 1)

\* VERT_TC_ID.match(line): ^\s*(TC[-_ ]?\d+)\s*$ on a stripped line
IsVertTcId(line) == Len(line) > 0 /\ TcTokenLen(line, 1) = Len(line)

\* next_nonempty(start), 0-based indices as in the source; -1 when none
RECURSIVE next_nonempty(_, _)
next_nonempty(raw_lines, start) ==
    IF start < Len(raw_lines) /\ Strip(raw_lines[start + 1]) = <<>>
    THEN next_nonempty(raw_lines, start + 1)
    ELSE IF start < Len(raw_lines) THEN start ELSE -1

\* a scan in which every id line starts a block: it resumes at the next line
RECURSIVE VerticalScanEveryIdLine(_, _)
VerticalScanEveryIdLine(raw_lines, i) ==
    IF i >= Len(raw_lines) THEN <<>>
    ELSE LET line == Strip(raw_lines[i + 1])
         IN  IF IsVertTcId(line)
             THEN LET j1 == next_nonempty(raw_lines, i + 1)
                      j2 == IF j1 # -1 THEN next_nonempty(raw_lines, j1 + 1) ELSE -1
                      j3 == IF j2 # -1 THEN next_nonempty(raw_lines, j2 + 1) ELSE -1
                      scenario == IF j1 # -1 THEN Strip(raw_lines[j1 + 1]) ELSE <<>>
                      steps    == IF j2 # -1 THEN Strip(raw_lines[j2 + 1]) ELSE <<>>
                      expected == IF j3 # -1 THEN Strip(raw_lines[j3 + 1]) ELSE <<>>
                  IN  <<TestCase(NormalizeTcId(line), scenario, steps, expected)>>
                      \o VerticalScanEveryIdLine(raw_lines, i + 1)
             ELSE VerticalScanEveryIdLine(raw_lines, i + 1)

\* the while loop of _parse_vertical_tests, i 0-based
RECURSIVE VerticalScan(_, _)
VerticalScan(raw_lines, i) ==
    IF i >= Len(raw_lines) THEN <<>>
    ELSE LET line == Strip(raw_lines[i + 1])
         IN  IF IsVertTcId(line)
             THEN LET j1 == next_nonempty(raw_lines, i + 1)
                      j2 == IF j1 # -1 THEN next_nonempty(raw_lines, j1 + 1) ELSE -1
                      j3 == IF j2 # -1 THEN next_nonempty(raw_lines, j2 + 1) ELSE -1
                      scenario == IF j1 # -1 THEN Strip(raw_lines[j1 + 1]) ELSE <<>>
                      steps    == IF j2 # -1 THEN Strip(raw_lines[j2 + 1]) ELSE <<>>
                      expected == IF j3 # -1 THEN Strip(raw_lines[j3 + 1]) ELSE <<>>
                  IN  <<TestCase(NormalizeTcId(line), scenario, steps, expected)>>
                      \o VerticalScan(raw_lines, IF j3 # -1 THEN j3 + 1 ELSE i + 1)
             ELSE VerticalScan(raw_lines, i + 1)

_parse_vertical_tests(text) ==
    IF text = <<>> THEN <<>>
    ELSE VerticalScan(SplitLines(text), 0)

\* the lines the while loop of _parse_vertical_tests reads for each record it
\* appends: the id line i and the field lines j1, j2, j3 (0-based, -1: none)
RECURSIVE VerticalBlocks(_, _)
VerticalBlocks(raw_lines, i) ==
    IF i >= Len(raw_lines) THEN <<>>
    ELSE IF IsVertTcId(Strip(raw_lines[i + 1]))
         THEN LET j1 == next_nonempty(raw_lines, i + 1)
                  j2 == IF j1 # -1 THEN next_nonempty(raw_lines, j1 + 1) ELSE -1
                  j3 == IF j2 # -1 THEN next_nonempty(raw_lines, j2 + 1) ELSE -1
              IN  <<[i |-> i, j1 |-> j1, j2 |-> j2, j3 |-> j3]>>
                  \o VerticalBlocks(raw_lines, IF j3 # -1 THEN j3 + 1 ELSE i + 1)
         ELSE VerticalBlocks(raw_lines, i + 1)

\* "TC" in text
ContainsTC(text) == \E i \in DOMAIN text : i < Len(text) /\ text[i] = "T" /\ text[i + 1] = "C"

\* The non-overlapping matches of MINI_TC_SPLIT, (TC[-_ ]?\d{1,}) IGNORECASE, from
\* index i on, left to right: a sequence of <<start, length>>
RECURSIVE MiniTokens(_, _)
MiniTokens(text, i) ==
    IF i > Len(text) THEN <<>>
    ELSE LET n == TcTokenLen(text, i)
         IN  IF n > 0 THEN <<<<i, n>>>> \o MiniTokens(text, i + n)
             ELSE MiniTokens(text, i + 1)

\* body.split("\n", 1)[0]
FirstLine(body) ==
    LET k == IndexOf(body, "\n", 1)
    IN  IF k = 0 THEN body ELSE Slice(body, 1, k - 1)

\* the while loop over parts: one case per token, its block the text up to the
\* next token
RECURSIVE MiniCases(_, _, _)
MiniCases(text, toks, k) ==
    IF k > Len(toks) THEN <<>>
    ELSE LET tc_raw == Strip(Slice(text, toks[k][1], toks[k][1] + toks[k][2] - 1))
             stop   == IF k < Len(toks) THEN toks[k + 1][1] - 1 ELSE Len(text)
             block  == Slice(text, toks[k][1] + toks[k][2], stop)
             body   == Strip(block)
         IN  <<TestCase(NormalizeTcId(tc_raw), Strip(FirstLine(body)), <<>>, <<>>)>>
             \o MiniCases(text, toks, k + 1)

_parse_minified_tests(text) ==
    IF ~(text # <<>> /\ ContainsTC(text)) THEN <<>>
    ELSE MiniCases(text, MiniTokens(text, 1), 1)

-----------------------------------------------------------------------------
(* Identity normaliser: the parsers' normalisation and the result mapper      *)
(* applied to one spelling of a test-case id                                  *)

MaxDigits == 4

Markers == {<<"t","c">>, <<"T","C">>, <<"T","c">>, <<"t","C">>}
Seps == {<<"-">>, <<"_">>, <<" ">>, <<>>}
DigitChoice == {"0", "1"}
Suffixes == {<<"a">>, <<"b">>}
Classes == {<<>>, <<"m","o","d">>}

DigitRuns == UNION {[1..n -> DigitChoice] : n \in 1..MaxDigits}

\* a bare id as the ticket text or a parametrised test id spells it
BareSpellings ==
    {[kind |-> "bare", marker |-> m, sep |-> sp, digits |-> d, text |-> m \o sp \o d] :
        m \in Markers, sp \in Seps, d \in DigitRuns}

\* a test function name test_tc_<digits>_<suffix>
EmbeddedSpellings ==
    {[kind |-> "embedded", marker |-> <<"t","c">>, sep |-> <<"_">>, digits |-> d,
      text |-> <<"t","e","s","t","_","t","c","_">> \o d \o <<"_">> \o sx] :
        d \in DigitRuns, sx \in Suffixes}

TableHeaderLine == <<"I","D"," ","|"," ","S"," ","|"," ","T"," ","|"," ","E">>
TableRowTail == <<" ","|"," ","s"," ","|"," ","t"," ","|"," ","e">>

Ids(cases) == [i \in DOMAIN cases |-> cases[i].id]

InitNorm ==
    /\ spelling \in BareSpellings \cup EmbeddedSpellings
    /\ parsed = PendingIds
    /\ mapped = Pending
    /\ junit = <<>> /\ cmd = "none" /\ agg = <<>>
    /\ fs = <<>> /\ before = <<>> /\ calls = <<>>
    /\ LaterIdle

\* the pipe-table parser reads the spelling as the id cell of a row
ParseIdInTable ==
    /\ parsed = PendingIds
    /\ parsed' = Ids(_parse_test_table(
                        TableHeaderLine \o <<"\n">> \o spelling.text \o TableRowTail))
    /\ UNCHANGED <<spelling, mapped>>
    /\ UNCHANGED aggVars /\ UNCHANGED stubVars
    /\ UNCHANGED laterVars

\* the vertical-block parser reads the spelling as an id line
ParseIdVertical ==
    /\ parsed = PendingIds
    /\ parsed' = Ids(_parse_vertical_tests(spelling.text))
    /\ UNCHANGED <<spelling, mapped>>
    /\ UNCHANGED aggVars /\ UNCHANGED stubVars
    /\ UNCHANGED laterVars

\* the result mapper reads the spelling as a test name
MapCase ==
    /\ mapped = Pending
    /\ \E cls \in Classes : mapped' = _tc_id_from_case(spelling.text, cls)
    /\ UNCHANGED <<spelling, parsed>>
    /\ UNCHANGED aggVars /\ UNCHANGED stubVars
    /\ UNCHANGED laterVars

NextNorm == ParseIdInTable \/ ParseIdVertical \/ MapCase

SpecNorm == InitNorm /\ [][NextNorm]_vars

\* TC-<d zero-padded to at least 3 digits>
Canon(d) ==
    <<"T","C","-">> \o (IF Len(d) = 1 THEN <<"0","0">> \o d
                        ELSE IF Len(d) = 2 THEN <<"0">> \o d
                        ELSE d)

\* C4: a test name test_tc_<digits>_<suffix> is mapped by _tc_id_from_case to
\* TC-<digits zero-padded to 3>.
C4_EmbeddedNameMapped ==
    (spelling.kind = "embedded" /\ mapped # Pending) => mapped = Canon(spelling.digits)

\* C5 as stated: for every marker case, separator among "-", "_", space or none and
\* zero padding, the parsers' normalisation and _tc_id_from_case both return the
\* canonical id TC-<d zero-padded to at least 3 digits>.
C5_SameCanonicalId ==
    spelling.kind = "bare" =>
        /\ parsed # PendingIds => parsed = <<Canon(spelling.digits)>>
        /\ mapped # Pending => mapped = Canon(spelling.digits)

\* C5 amended: the parsers return the canonical id for every separator among "-",
\* "_", space or none; _tc_id_from_case returns the same canonical id for the
\* separators "-", "_" or none, and None for the space separator. Digit runs longer
\* than 3 are kept whole.
C5_SameCanonicalIdNoSpace ==
    spelling.kind = "bare" =>
        /\ parsed # PendingIds => parsed = <<Canon(spelling.digits)>>
        /\ (mapped # Pending /\ spelling.sep # <<" ">>) => mapped = Canon(spelling.digits)
        /\ (mapped # Pending /\ spelling.sep = <<" ">>) => mapped = None

C5_Witness ==
    /\ spelling.kind = "bare"
    /\ spelling.marker = <<"t","C">>
    /\ spelling.sep = <<"_">>
    /\ spelling.digits = <<"0","1">>
    /\ parsed = <<<<"T","C","-","0","0","1">>>>
    /\ mapped = <<"T","C","-","0","0","1">>

-----------------------------------------------------------------------------
(* Result aggregation: post_tests_tc, post_tests_table, fix_failures          *)

MaxCases == 2
ReasonMax == 140
\* the one character U+2026 appended to a cut reason
Ellipsis == "<U+2026>"

\* a case as _junit_parse builds it; time in milliseconds
RawCase(name, cls, t, status, detail) ==
    [name |-> name, class |-> cls, time |-> t, status |-> status, detail |-> detail]

CaseNames == {<<"t","c","_","0","0","1">>, <<"t","c","2">>,
              <<"t","e","s","t","_","t","c","_","0","0","1","_","a">>}
CaseTimes == {500, 1200}
\* a detail of two lines; the first, between blanks, is one character longer
\* than a reason may be
LongLine == [i \in 1..(ReasonMax + 1) |-> "z"]
LongDetail == <<" ">> \o LongLine \o <<" ", "\n", "y">>

\* status and detail as _junit_parse pairs them: a passed case has no detail
CaseOutcomes ==
    {<<"passed", <<>>>>,
     <<"skipped", <<"w","h","y">>>>,
     <<"failure", <<"b","o","o","m">>>>,
     <<"failure", LongDetail>>,
     <<"error", <<>>>>}

RawCases ==
    {RawCase(n, <<>>, t, o[1], o[2]) : n \in CaseNames, t \in CaseTimes, o \in CaseOutcomes}

JunitFiles == UNION {[1..n -> RawCases] : n \in 0..MaxCases}

\* priority = {"error": 3, "failure": 3, "skipped": 2, "passed": 1}; priority.get(s, 0)
PriorityErrorUnlisted(status) ==
    CASE status = "failure" -> 3
      [] status = "skipped" -> 2
      [] status = "passed"  -> 1
      [] OTHER -> 0

Priority(status) ==
    CASE status \in {"error", "failure"} -> 3
      [] status = "skipped" -> 2
      [] status = "passed"  -> 1
      [] OTHER -> 0

\* the brief reason of a case:
\*   reason = ""
\*   if [include_reason and] c["status"] in ("failure","error") and c.get("detail"):
\*       reason = (c["detail"].splitlines() or [""])[0].strip()
\*       if len(reason) > 140: reason = reason[:140] + "\u2026"
Reason(c, include_reason) ==
    IF include_reason /\ c.status \in {"failure", "error"} /\ c.detail # <<>>
    THEN LET ls == SplitLines(c.detail)
             first == Strip(IF ls = <<>> THEN <<>> ELSE ls[1])
         IN  IF Len(first) > ReasonMax THEN SubSeq(first, 1, ReasonMax) \o <<Ellipsis>>
             ELSE first
    ELSE <<>>

Put(m, k, v) == (k :> v) @@ m

\* post_tests_tc, the loop building tc_map
RECURSIVE TcMapFold(_, _, _, _)
TcMapFold(cases, i, tc_map, include_reason) ==
    IF i > Len(cases) THEN tc_map
    ELSE LET c == cases[i]
             tcid == _tc_id_from_case(c.name, c.class)
         IN  IF tcid = None THEN TcMapFold(cases, i + 1, tc_map, include_reason)
             ELSE IF tcid \notin DOMAIN tc_map
                     \/ Priority(c.status) > Priority(tc_map[tcid].status)
             THEN TcMapFold(cases, i + 1,
                            Put(tc_map, tcid, [status |-> c.status,
                                               reason |-> Reason(c, include_reason)]),
                            include_reason)
             ELSE TcMapFold(cases, i + 1, tc_map, include_reason)

\* the step with >= for >: a later case of equal priority takes the entry over
AggStepLastWins(acc, tcid, c) ==
    IF tcid \notin DOMAIN acc \/ Priority(c.status) >= Priority(acc[tcid].status)
    THEN Put(acc, tcid, [status |-> c.status, time |-> c.time, reason |-> Reason(c, TRUE)])
    ELSE Put(acc, tcid, [acc[tcid] EXCEPT !.time = @ + c.time])

\* one step of the loop shared by post_tests_table and fix_failures, tcid given
AggStep(acc, tcid, c) ==
    IF tcid \notin DOMAIN acc \/ Priority(c.status) > Priority(acc[tcid].status)
    THEN Put(acc, tcid, [status |-> c.status, time |-> c.time, reason |-> Reason(c, TRUE)])
    ELSE Put(acc, tcid, [acc[tcid] EXCEPT !.time = @ + c.time])

\* post_tests_table, the loop building agg
RECURSIVE TableFold(_, _, _)
TableFold(cases, i, acc) ==
    IF i > Len(cases) THEN acc
    ELSE LET c == cases[i]
             tcid == _tc_id_from_case(c.name, c.class)
         IN  IF tcid = None THEN TableFold(cases, i + 1, acc)
             ELSE TableFold(cases, i + 1, AggStep(acc, tcid, c))

\* fix_failures: tcid = _tc_id_from_case(...) or (c.get("name") or "").upper()
FixKey(c) ==
    LET tcid == _tc_id_from_case(c.name, c.class)
    IN  IF tcid # None THEN tcid ELSE Upper(c.name)

\* fix_failures, the loop building agg
RECURSIVE FixFold(_, _, _)
FixFold(cases, i, acc) ==
    IF i > Len(cases) THEN acc
    ELSE FixFold(cases, i + 1, AggStep(acc, FixKey(cases[i]), cases[i]))

InitAgg ==
    /\ junit \in JunitFiles
    /\ cmd = "none"
    /\ agg = <<>>
    /\ spelling = <<>> /\ parsed = PendingIds /\ mapped = Pending
    /\ fs = <<>> /\ before = <<>> /\ calls = <<>>
    /\ LaterIdle

\* post-tests-tc: exits when there are no cases or no case carries an id
post_tests_tc ==
    /\ cmd = "none"
    /\ \E include_reason \in BOOLEAN :
          LET tc_map == TcMapFold(junit, 1, <<>>, include_reason)
          IN  IF junit = <<>> \/ DOMAIN tc_map = {}
              THEN cmd' = "post_tests_tc:exit" /\ agg' = <<>>
              ELSE cmd' = "post_tests_tc" /\ agg' = tc_map
    /\ UNCHANGED junit
    /\ UNCHANGED normVars /\ UNCHANGED stubVars
    /\ UNCHANGED laterVars

\* post-tests-table: exits when there are no cases, else posts the table
post_tests_table ==
    /\ cmd = "none"
    /\ IF junit = <<>>
       THEN cmd' = "post_tests_table:exit" /\ agg' = <<>>
       ELSE cmd' = "post_tests_table" /\ agg' = TableFold(junit, 1, <<>>)
    /\ UNCHANGED junit
    /\ UNCHANGED normVars /\ UNCHANGED stubVars
    /\ UNCHANGED laterVars

\* fix-failures with post_table: posts the table when there are cases
fix_failures ==
    /\ cmd = "none"
    /\ IF junit = <<>>
       THEN cmd' = "fix_failures:nothing" /\ agg' = <<>>
       ELSE cmd' = "fix_failures" /\ agg' = FixFold(junit, 1, <<>>)
    /\ UNCHANGED junit
    /\ UNCHANGED normVars /\ UNCHANGED stubVars
    /\ UNCHANGED laterVars

NextAgg == post_tests_tc \/ post_tests_table \/ fix_failures

SpecAgg == InitAgg /\ [][NextAgg]_vars

\* the key a command files a raw case under (None: the case is dropped)
KeyIn(command, c) ==
    IF command = "fix_failures" THEN FixKey(c) ELSE _tc_id_from_case(c.name, c.class)

RECURSIVE SumTimes(_, _)
SumTimes(cases, idxs) ==
    IF idxs = {} THEN 0
    ELSE LET i == CHOOSE j \in idxs : TRUE
         IN  cases[i].time + SumTimes(cases, idxs \ {i})

CasesOf(id) == {i \in DOMAIN junit : KeyIn(cmd, junit[i]) = id}

\* C1: in the table of post_tests_table and of fix_failures, the elapsed time of
\* every id is the sum of the elapsed times of all raw cases that map to the id.
C1_ElapsedIsSum ==
    cmd \in {"post_tests_table", "fix_failures"} =>
        \A id \in DOMAIN agg : agg[id].time = SumTimes(junit, CasesOf(id))

\* C2: in all three commands, an id one of whose raw cases has status error is
\* aggregated as error or failure, whatever the order of the cases.
C2_WorstStatus ==
    cmd \in {"post_tests_tc", "post_tests_table", "fix_failures"} =>
        \A id \in DOMAIN agg :
            (\E i \in CasesOf(id) : junit[i].status = "error")
                => agg[id].status \in {"error", "failure"}

\* an error case that arrives after a passed case of the same id
C2_Witness ==
    /\ cmd \in {"post_tests_tc", "post_tests_table", "fix_failures"}
    /\ Len(junit) = 2
    /\ junit[1].status = "passed" /\ junit[2].status = "error"
    /\ \E id \in DOMAIN agg : CasesOf(id) = {1, 2} /\ agg[id].status = "error"

\* TC-<digits>
IsCanonicalKey(k) ==
    /\ Len(k) >= 4
    /\ SubSeq(k, 1, 3) = <<"T","C","-">>
    /\ \A i \in 4..Len(k) : IsDigit(k[i])

\* the raw cases a canonical id can be derived for
Identified(cases) ==
    SelectSeq(cases, LAMBDA c : _tc_id_from_case(c.name, c.class) # None)

\* C14: in all three commands every key of the aggregated mapping has the form
\* TC-<digits>, and the mapping is the one the command builds from the raw cases
\* that have a canonical id alone: a case without one is dropped and changes no
\* entry.
C14_UnmappedDropped ==
    cmd \in {"post_tests_tc", "post_tests_table", "fix_failures"} =>
        /\ \A k \in DOMAIN agg : IsCanonicalKey(k)
        /\ CASE cmd = "post_tests_tc" ->
                  \E include_reason \in BOOLEAN :
                      agg = TcMapFold(Identified(junit), 1, <<>>, include_reason)
             [] cmd = "post_tests_table" -> agg = TableFold(Identified(junit), 1, <<>>)
             [] cmd = "fix_failures" -> agg = FixFold(Identified(junit), 1, <<>>)

\* the raw case that set the stored status of an id: the first, in input order,
\* of the cases of highest priority filed under the id
Winner(id) ==
    CHOOSE i \in CasesOf(id) :
        \A j \in CasesOf(id) :
            \/ Priority(junit[j].status) < Priority(junit[i].status)
            \/ Priority(junit[j].status) = Priority(junit[i].status) /\ i <= j

\* a line cut to its first 140 characters, followed by the marker when longer
Cut(line) ==
    IF Len(line) > ReasonMax THEN SubSeq(line, 1, ReasonMax) \o <<Ellipsis>> ELSE line

\* every reason is the one required for its status, the first line being read
\* with or without its surrounding blanks
ReasonsFollow(stripped) ==
    \A id \in DOMAIN agg :
        /\ agg[id].status = junit[Winner(id)].status
        /\ agg[id].status \in {"passed", "skipped"} => agg[id].reason = <<>>
        /\ agg[id].status \in {"failure", "error"} =>
               LET first == FirstLine(junit[Winner(id)].detail)
               IN  agg[id].reason = Cut(IF stripped THEN Strip(first) ELSE first)

-----------------------------------------------------------------------------
(* Stub synthesis: _ensure_tests_for_issue                                     *)

MaxCalls == 2

SeedCase == TestCase(<<"T","C","-","0","0","1">>, <<"S","e","e","d"," ","t","e","s","t">>, <<>>, <<>>)

\* a cascade that adds every strategy's records instead of stopping at the first
ParsedCasesMerged(tests_text, desc_text) ==
    _parse_test_table(tests_text) \o _parse_vertical_tests(tests_text)
        \o _parse_vertical_tests(desc_text)
        \o _parse_minified_tests(tests_text) \o _parse_minified_tests(desc_text)

\* the strategy cascade of _ensure_tests_for_issue, without the seed record
ParsedCases(tests_text, desc_text) ==
    LET c1 == _parse_test_table(tests_text)
        c2 == IF c1 = <<>> THEN _parse_vertical_tests(tests_text) ELSE c1
        c3 == IF c2 = <<>> THEN _parse_vertical_tests(desc_text) ELSE c2
        c4 == IF c3 = <<>>
              THEN (IF _parse_minified_tests(tests_text) # <<>>
                    THEN _parse_minified_tests(tests_text)
                    ELSE _parse_minified_tests(desc_text))
              ELSE c3
    IN  c4

\* the cascade without the final fallback
CasesForNoSeed(tests_text, desc_text) == ParsedCases(tests_text, desc_text)

\* the cases _ensure_tests_for_issue generates stubs for
CasesFor(tests_text, desc_text) ==
    IF ParsedCases(tests_text, desc_text) = <<>> THEN <<SeedCase>>
    ELSE ParsedCases(tests_text, desc_text)

\* tcid = c["id"].upper().replace("-", "_"), lower-cased where it is used
StubTcid(id) == Lower(ReplaceCh(Upper(id), "-", "_"))

\* func = f"test_{tcid.lower()}"
StubFunc(id) == <<"t","e","s","t","_">> \o StubTcid(id)

\* the module of the stub: fname without ".py"
StubModule(issue_key, id) == <<"t","e","s","t","_">> \o Lower(issue_key) \o <<"_">> \o StubTcid(id)

\* fname = f"test_{issue_key.lower()}_{tcid.lower()}.py"
StubFileName(issue_key, id) == StubModule(issue_key, id) \o <<".","p","y">>

\* a path that leaves the issue's directory out
StubPathFlat(issue_key, id) == StubFileName(issue_key, id)

\* fpath = TESTS_ROOT / issue_key / fname, relative to TESTS_ROOT
StubPath(issue_key, id) == issue_key \o <<"/">> \o StubFileName(issue_key, id)

\* the classname pytest reports for a test of tests/<issue_key>/<module>.py
StubClassName(issue_key, id) ==
    <<"t","e","s","t","s",".">> \o issue_key \o <<".">> \o StubModule(issue_key, id)

RECURSIVE NonEmpty(_)
NonEmpty(parts) ==
    IF parts = <<>> THEN <<>>
    ELSE IF Head(parts) = <<>> THEN NonEmpty(Tail(parts))
    ELSE <<Head(parts)>> \o NonEmpty(Tail(parts))

\* the text written to a new stub
StubContent(c) ==
    LET body == JoinLines(NonEmpty(<<Strip(c.scenario), Strip(c.steps), Strip(c.expected)>>))
    IN  <<"i","m","p","o","r","t"," ","p","y","t","e","s","t","\n","\n">>
        \o <<"d","e","f"," ">> \o StubFunc(c.id) \o <<"(",")",":","\n">>
        \o <<" "," "," "," ","\"","\"","\"">> \o body \o <<"\"","\"","\"","\n">>
        \o <<" "," "," "," ","a","s","s","e","r","t"," ","T","r","u","e","\n">>

\* the write loop that overwrites existing files
RECURSIVE WriteStubsOverwrite(_, _, _, _, _)
WriteStubsOverwrite(files, issue_key, cases, i, written) ==
    IF i > Len(cases) THEN [files |-> files, written |-> written]
    ELSE WriteStubsOverwrite(Put(files, StubPath(issue_key, cases[i].id), StubContent(cases[i])),
                             issue_key, cases, i + 1, written + 1)

\* the write loop that stops at the first existing file
RECURSIVE WriteStubsStop(_, _, _, _, _)
WriteStubsStop(files, issue_key, cases, i, written) ==
    IF i > Len(cases) THEN [files |-> files, written |-> written]
    ELSE LET fpath == StubPath(issue_key, cases[i].id)
         IN  IF fpath \in DOMAIN files
             THEN [files |-> files, written |-> written]
             ELSE WriteStubsStop(Put(files, fpath, StubContent(cases[i])),
                                 issue_key, cases, i + 1, written + 1)

\* the write loop: for c in cases: skip when fpath.exists(), else write and count
RECURSIVE WriteStubs(_, _, _, _, _)
WriteStubs(files, issue_key, cases, i, written) ==
    IF i > Len(cases) THEN [files |-> files, written |-> written]
    ELSE LET fpath == StubPath(issue_key, cases[i].id)
         IN  IF fpath \in DOMAIN files
             THEN WriteStubs(files, issue_key, cases, i + 1, written)
             ELSE WriteStubs(Put(files, fpath, StubContent(cases[i])),
                             issue_key, cases, i + 1, written + 1)

IssueKeys == {<<"A","B","-","1">>, <<"a","b","-","1">>}

TestsTexts ==
    {<<>>,
     \* a pipe table, two of whose rows spell the id TC-001 and differ in their
     \* cells, followed by vertical-block content
     <<"I","D","|","S","|","T","|","E","\n","T","C","-","1","|","a","|","b","|","c","\n","t","c","_","0","1","|","d","|","|","\n","T","C","-","2","|","e","|","|","\n","T","C","-","5","\n","x">>,
     \* a vertical block
     <<"T","C","-","2","\n","l","a","y","\n","o","p","e","n","\n","o","k">>,
     \* minified text
     <<"x","T","C","-","1","a","T","C","3">>}

DescTexts ==
    {<<>>,
     \* a vertical block with fewer than three lines after the id
     <<"T","C","-","7","\n","d">>,
     \* a lower-case pipe table: no strategy applied to the description reads it
     <<"i","d","|","s","|","t","|","e","\n","t","c","-","9","|","a","|","b","|","c">>,
     \* minified text
     <<"T","C","8","y">>}

HandEdited == <<"#"," ","m","i","n","e","\n">>

\* the stub files present before the first call: none, or a hand-edited stub
InitialFiles ==
    {<<>>,
     (StubPath(<<"A","B","-","1">>, <<"T","C","-","0","0","1">>) :> HandEdited)}

\* the cases of every input pair of the model, computed once
CasesTable ==
    [t \in TestsTexts, d \in DescTexts |-> CasesFor(t, d)]

InitStub ==
    /\ fs \in InitialFiles
    /\ before = fs
    /\ calls = <<>>
    /\ spelling = <<>> /\ parsed = PendingIds /\ mapped = Pending
    /\ junit = <<>> /\ cmd = "none" /\ agg = <<>>
    /\ LaterIdle

\* one call _ensure_tests_for_issue(issue_key, tests_text, desc_text)
_ensure_tests_for_issue ==
    /\ Len(calls) < MaxCalls
    /\ \E issue_key \in IssueKeys, tests_text \in TestsTexts, desc_text \in DescTexts :
          LET cases == CasesTable[tests_text, desc_text]
              res   == WriteStubs(fs, issue_key, cases, 1, 0)
          IN  /\ fs' = res.files
              /\ before' = fs
              /\ calls' = Append(calls, [issue_key |-> issue_key,
                                         tests_text |-> tests_text,
                                         desc_text |-> desc_text,
                                         cases |-> cases,
                                         written |-> res.written])
    /\ UNCHANGED normVars /\ UNCHANGED aggVars
    /\ UNCHANGED laterVars

NextStub == _ensure_tests_for_issue

SpecStub == InitStub /\ [][NextStub]_vars

-----------------------------------------------------------------------------
(* Properties of stub synthesis *)

Last == calls[Len(calls)]

SameArguments(a, b) ==
    /\ a.issue_key = b.issue_key
    /\ a.tests_text = b.tests_text
    /\ a.desc_text = b.desc_text

\* C3: the stub of a record with canonical id c defines test_tc_<digits> in module
\* test_<issuekey>_tc_<digits>, and _tc_id_from_case maps that function name and
\* the module-derived class name back to c.
C3_StubRoundTrip ==
    calls # <<>> =>
        \A i \in DOMAIN Last.cases :
            _tc_id_from_case(StubFunc(Last.cases[i].id),
                             StubClassName(Last.issue_key, Last.cases[i].id))
                = Last.cases[i].id

\* C6: a second call with the same arguments on the files the first call left
\* returns 0 and leaves the files and their contents unchanged.
C6_SecondCallWritesNothing ==
    (Len(calls) >= 2 /\ SameArguments(calls[Len(calls) - 1], Last)) =>
        /\ Last.written = 0
        /\ fs = before

\* the first call wrote the stubs of a table that repeats an id, the second none
C6_Witness ==
    /\ Len(calls) = 2
    /\ SameArguments(calls[1], calls[2])
    /\ \E i, j \in DOMAIN calls[1].cases : i # j /\ calls[1].cases[i].id = calls[1].cases[j].id
    /\ calls[1].written = 2
    /\ calls[2].written = 0

\* C7: a call leaves every file that existed before it as it was, and returns the
\* number of paths that did not exist before the call and exist after it.
C7_ExistingFilesUntouched ==
    calls # <<>> =>
        /\ \A p \in DOMAIN before : p \in DOMAIN fs /\ fs[p] = before[p]
        /\ Last.written = Cardinality(DOMAIN fs \ DOMAIN before)

\* a call one of whose records owns a hand-edited stub, and which wrote another
C7_Witness ==
    /\ calls # <<>>
    /\ Last.written >= 1
    /\ \E i \in DOMAIN Last.cases :
          LET p == StubPath(Last.issue_key, Last.cases[i].id)
          IN  p \in DOMAIN before /\ before[p] = HandEdited /\ fs[p] = HandEdited

\* the (issue key, canonical id) pairs the calls processed
Processed ==
    UNION {{<<calls[n].issue_key, calls[n].cases[i].id>> : i \in DOMAIN calls[n].cases} :
              n \in DOMAIN calls}

\* the stub paths present before the first call
InitialPaths == UNION {DOMAIN f : f \in InitialFiles}

\* C8: after any sequence of calls every processed (issue key, canonical id) pair
\* has its stub file, two different pairs never share a path, and no file exists
\* beside the stubs of the processed pairs and the files found at the start.
C8_OneStubPerPair ==
    LET path == [pr \in Processed |-> StubPath(pr[1], pr[2])]
    IN  /\ \A pr \in Processed : path[pr] \in DOMAIN fs
        /\ \A p, q \in Processed : path[p] = path[q] => p = q
        /\ DOMAIN fs \subseteq {path[pr] : pr \in Processed} \cup InitialPaths

\* two issues whose keys differ in letter case only, each with a stub of one id
C8_Witness ==
    /\ Len(calls) = 2
    /\ calls[1].issue_key # calls[2].issue_key
    /\ Lower(calls[1].issue_key) = Lower(calls[2].issue_key)
    /\ calls[1].written >= 1 /\ calls[2].written >= 1
    /\ \E c \in Range(calls[1].cases), d \in Range(calls[2].cases) : c.id = d.id

Perms(n) == {f \in [1..n -> 1..n] : \A i, j \in 1..n : f[i] = f[j] => i = j}

MaxRecords == 4
PermTable == [n \in 0..MaxRecords |-> Perms(n)]

Permuted(cases, f) == [i \in DOMAIN cases |-> cases[f[i]]]

\* the records of the last call that share the stub path p agree in their fields
AgreeOn(p) ==
    \A i, j \in DOMAIN Last.cases :
        (/\ StubPath(Last.issue_key, Last.cases[i].id) = p
         /\ StubPath(Last.issue_key, Last.cases[j].id) = p)
            => /\ Last.cases[i].scenario = Last.cases[j].scenario
               /\ Last.cases[i].steps = Last.cases[j].steps
               /\ Last.cases[i].expected = Last.cases[j].expected

\* C9 as stated: processing the records of a call in any permutation, from the
\* same files, gives the same stub files with the same contents.
C9_OrderIndependent ==
    calls # <<>> =>
        \A f \in PermTable[Len(Last.cases)] :
            WriteStubs(before, Last.issue_key, Permuted(Last.cases, f), 1, 0).files = fs

\* the first record of cs whose stub path is p
FirstFor(cs, issue_key, p) ==
    cs[CHOOSE i \in DOMAIN cs :
          /\ StubPath(issue_key, cs[i].id) = p
          /\ \A j \in 1..(i - 1) : StubPath(issue_key, cs[j].id) # p]

\* C9 amended: every permutation gives the same set of stub files, and the same
\* content for every file that existed before or whose records agree in scenario,
\* steps and expected; a new stub documents the first processed record of its id.
C9_OrderIndependentFiles ==
    calls # <<>> =>
        \A f \in PermTable[Len(Last.cases)] :
            LET cs == Permuted(Last.cases, f)
                r  == WriteStubs(before, Last.issue_key, cs, 1, 0).files
            IN  /\ DOMAIN r = DOMAIN fs
                /\ \A p \in DOMAIN fs : (p \in DOMAIN before \/ AgreeOn(p)) => r[p] = fs[p]
                /\ \A p \in DOMAIN r \ DOMAIN before :
                      r[p] = StubContent(FirstFor(cs, Last.issue_key, p))

\* a call that found a stub of one of its ids and wrote the stub of another
C9_Witness ==
    /\ calls # <<>>
    /\ Len(Last.cases) >= 3
    /\ Last.written >= 1
    /\ \E i, j \in DOMAIN Last.cases :
          /\ Last.cases[i].id # Last.cases[j].id
          /\ StubPath(Last.issue_key, Last.cases[i].id) \in DOMAIN before
          /\ StubPath(Last.issue_key, Last.cases[j].id) \notin DOMAIN before

InIssueDir(p, issue_key) ==
    /\ Len(p) > Len(issue_key) + 1
    /\ SubSeq(p, 1, Len(issue_key)) = issue_key
    /\ p[Len(issue_key) + 1] = "/"

NoStrategyYields(tests_text, desc_text) ==
    /\ _parse_test_table(tests_text) = <<>>
    /\ _parse_test_table(desc_text) = <<>>
    /\ _parse_vertical_tests(tests_text) = <<>>
    /\ _parse_vertical_tests(desc_text) = <<>>
    /\ _parse_minified_tests(tests_text) = <<>>
    /\ _parse_minified_tests(desc_text) = <<>>

NoYieldTable == [t \in TestsTexts, d \in DescTexts |-> NoStrategyYields(t, d)]

\* C10: when no strategy yields a record for the tests text and the description,
\* the call uses exactly the one default record (TC-001, "Seed test", empty steps
\* and expected); after every call a stub file exists for the issue.
C10_SeedRecord ==
    calls # <<>> =>
        /\ NoYieldTable[Last.tests_text, Last.desc_text] =>
              Last.cases = <<[id |-> <<"T","C","-","0","0","1">>,
                              scenario |-> <<"S","e","e","d"," ","t","e","s","t">>,
                              steps |-> <<>>, expected |-> <<>>]>>
        /\ \E p \in DOMAIN fs : InIssueDir(p, Last.issue_key)

\* a call with empty tests text and empty description wrote the seed stub
C10_Witness ==
    /\ calls # <<>>
    /\ Last.tests_text = <<>> /\ Last.desc_text = <<>>
    /\ Len(Last.cases) = 1
    /\ Last.written = 1
    /\ StubPath(Last.issue_key, <<"T","C","-","0","0","1">>) \in DOMAIN fs \ DOMAIN before

\* what each strategy returns for every text of the model, computed once
StrategyTable ==
    [t \in TestsTexts \cup DescTexts |->
        [table    |-> _parse_test_table(t),
         vertical |-> _parse_vertical_tests(t),
         minified |-> _parse_minified_tests(t)]]

\* C11: first success wins. When the pipe-table strategy returns a record for the
\* tests text, the call uses exactly its records; otherwise, when the vertical
\* strategy returns a record for the tests text, exactly those; otherwise, when
\* it returns a record for the description, exactly those: no record of a later
\* strategy is added.
C11_FirstSuccessWins ==
    calls # <<>> =>
        LET t == StrategyTable[Last.tests_text]
            d == StrategyTable[Last.desc_text]
        IN  /\ t.table # <<>> => Last.cases = t.table
            /\ (t.table = <<>> /\ t.vertical # <<>>) => Last.cases = t.vertical
            /\ (t.table = <<>> /\ t.vertical = <<>> /\ d.vertical # <<>>) =>
                  Last.cases = d.vertical

\* a call whose tests text is read by all three strategies and whose description
\* is read by the minified strategy used the pipe table's records alone
C11_Witness ==
    /\ calls # <<>>
    /\ StrategyTable[Last.tests_text].table # <<>>
    /\ StrategyTable[Last.tests_text].vertical # <<>>
    /\ StrategyTable[Last.tests_text].minified # <<>>
    /\ StrategyTable[Last.desc_text].minified # <<>>
    /\ Last.cases = StrategyTable[Last.tests_text].table
    /\ Last.written >= 1

-----------------------------------------------------------------------------
(* Posting to the tracker: jira_comment and the commands that post.          *)
(* A text is represented by its length; a slice text[a:b] by its bounds.     *)

MAX_JIRA_COMMENT == 24000

\* maxc of post_tests_detailed
LogChunk == 28000

\* the longest failure detail post_tests_detailed posts whole
DetailMax == 9000

\* len("\n" + ellipsis + "(truncated)" + ellipsis)
TruncatedMark == 14

MaxParts == 2
Slack == 1
MaxDetailCases == 2

Min(a, b) == IF a < b THEN a ELSE b

\* one POST .../comment: the label paragraph, its part number (0: none) and the
\* slice [from, to) of the source text the comment carries
Comment(label, part, from, to) ==
    [label |-> label, part |-> part, from |-> from, to |-> to]

\* a chunker whose chunks are one character longer than the maximum
RECURSIVE JiraCommentWide(_, _, _, _)
JiraCommentWide(n, title, start, i) ==
    IF ~(start < n) THEN <<>>
    ELSE LET stop == Min(start + MAX_JIRA_COMMENT + 1, n)
         IN  <<Comment(title, i, start, stop)>> \o JiraCommentWide(n, title, stop, i + 1)

\* jira_comment(key, body_md, title) for a body of length n; title "" is None.
\* The loop from `start`, part number i: the comments it posts.
RECURSIVE JiraComment(_, _, _, _)
JiraComment(n, title, start, i) ==
    IF ~(start < n) THEN <<>>
    ELSE LET stop  == Min(start + MAX_JIRA_COMMENT, n)
             part  == IF n <= MAX_JIRA_COMMENT THEN 0 ELSE i
             label == IF title # "" \/ n > MAX_JIRA_COMMENT
                      THEN (IF title # "" THEN title ELSE "DevFlow")
                      ELSE ""
         IN  <<Comment(label, part, start, stop)>> \o JiraComment(n, title, stop, i + 1)

\* text lengths around the multiples of the two chunk sizes
BodyLengths ==
    {n \in {k * c + d : k \in 0..MaxParts, c \in {MAX_JIRA_COMMENT, LogChunk},
                        d \in (0 - Slack)..Slack} : n >= 0}

\* a file of the artifact directory: its length, or Missing
Missing == 0 - 1
FileLengths == BodyLengths \cup {Missing}

\* len of the summary line for an issue key of the given length and one-digit counts
SummaryLen(key) == 73 + key
KeyLengths == {4, 5}

\* the part of a parsed case post_tests_detailed reads: the status and the
\* lengths of the test id, of the formatted time and of the detail
DetailCases ==
    {[status |-> "passed",  test_id |-> 10, time_text |-> 5, detail |-> 0],
     [status |-> "skipped", test_id |-> 10, time_text |-> 5, detail |-> 3],
     [status |-> "error",   test_id |-> 10, time_text |-> 5, detail |-> 0],
     [status |-> "failure", test_id |-> 10, time_text |-> 5, detail |-> DetailMax],
     [status |-> "failure", test_id |-> 12, time_text |-> 6, detail |-> DetailMax + 1]}

DetailCaseLists ==
    UNION {[1..k -> DetailCases] : k \in 0..MaxDetailCases}

\* len of the icon of a status
IconLen(status) == IF status = "skipped" THEN 2 ELSE 1

\* the three cells of the row of case c
RowLen(c) == (IconLen(c.status) + 1 + Len(c.status)) + c.test_id + c.time_text

\* the paragraph and the code block of a failed case
FailBlocksLen(c) ==
    IF c.status \in {"failure", "error"} /\ c.detail > 0
    THEN (Len(c.status) + 2 + c.test_id)
         + (IF c.detail > DetailMax THEN DetailMax + TruncatedMark ELSE c.detail)
    ELSE 0

RECURSIVE SumOver(_, _, _)
SumOver(cases, i, acc) ==
    IF i > Len(cases) THEN acc
    ELSE SumOver(cases, i + 1, acc + RowLen(cases[i]) + FailBlocksLen(cases[i]))

\* the text of the one document post_tests_detailed posts: summary paragraph,
\* table (headers "Status", "Test", "Time (s)") and failure blocks
DetailedDocLen(key, cases) == SumOver(cases, 1, SummaryLen(key) + 18)

\* the log parts: for start in range(0, len(text), maxc)
RECURSIVE LogParts(_, _, _)
LogParts(n, start, i) ==
    IF ~(start < n) THEN <<>>
    ELSE <<Comment("Pytest log", i, start, Min(start + LogChunk, n))>>
         \o LogParts(n, start + LogChunk, i + 1)

InitPost ==
    /\ posting = [command |-> "none"]
    /\ comments = <<>>
    /\ spelling = <<>> /\ parsed = PendingIds /\ mapped = Pending
    /\ junit = <<>> /\ cmd = "none" /\ agg = <<>>
    /\ fs = <<>> /\ before = <<>> /\ calls = <<>>
    /\ JunitIdle /\ AdfIdle /\ ParseIdle /\ RestIdle

\* one call jira_comment(key, body_md, title)
jira_comment ==
    /\ posting.command = "none"
    /\ \E n \in BodyLengths, title \in {"", "Test Results"} :
          /\ posting' = [command |-> "jira_comment", body |-> n, title |-> title]
          /\ comments' = JiraComment(n, title, 0, 1)
    /\ UNCHANGED <<earlyVars, junitVars, adfVars, parseVars, restVars>>

\* post --what: the codegen output and / or the test report, when they exist
post ==
    /\ posting.command = "none"
    /\ \E what \in {"codegen", "tests", "both", "other"},
          codegen \in FileLengths, tests \in FileLengths :
          /\ posting' = [command |-> "post", what |-> what,
                         codegen |-> codegen, tests |-> tests]
          /\ comments' =
                (IF what \in {"codegen", "both"} /\ codegen # Missing
                 THEN JiraComment(codegen, "", 0, 1) ELSE <<>>)
                \o (IF what \in {"tests", "both"} /\ tests # Missing
                    THEN JiraComment(tests, "", 0, 1) ELSE <<>>)
    /\ UNCHANGED <<earlyVars, junitVars, adfVars, parseVars, restVars>>

\* post_tests_summary: exits when the result file is missing
post_tests_summary ==
    /\ posting.command = "none"
    /\ \E junit_exists \in BOOLEAN, key \in KeyLengths :
          /\ posting' = [command |-> "post_tests_summary",
                         junit_exists |-> junit_exists, body |-> SummaryLen(key)]
          /\ comments' = IF junit_exists
                         THEN JiraComment(SummaryLen(key), "Test Results", 0, 1)
                         ELSE <<>>
    /\ UNCHANGED <<earlyVars, junitVars, adfVars, parseVars, restVars>>

\* the last step of post_tests_tc, post_tests_table and fix_failures:
\* jira_comment(issue_key, body) with the joined lines; the body has a line
CommentBody(command) ==
    /\ posting.command = "none"
    /\ \E n \in BodyLengths \ {0} :
          /\ posting' = [command |-> command, body |-> n]
          /\ comments' = JiraComment(n, "", 0, 1)
    /\ UNCHANGED <<earlyVars, junitVars, adfVars, parseVars, restVars>>

post_tests_tc_comment    == CommentBody("post_tests_tc")
post_tests_table_comment == CommentBody("post_tests_table")
fix_failures_comment     == CommentBody("fix_failures")

\* post-tests-detailed: one document for the report, then the log in parts
post_tests_detailed ==
    /\ posting.command = "none"
    /\ \E junit_exists \in BOOLEAN, key \in KeyLengths, cases \in DetailCaseLists,
          include_logs \in BOOLEAN, log \in FileLengths :
          /\ posting' = [command |-> "post_tests_detailed",
                         junit_exists |-> junit_exists, key |-> key, cases |-> cases,
                         include_logs |-> include_logs, log |-> log]
          /\ comments' =
                IF ~junit_exists THEN <<>>
                ELSE <<Comment("", 0, 0, DetailedDocLen(key, cases))>>
                     \o (IF include_logs /\ log # Missing
                         THEN LogParts(log, 0, 1) ELSE <<>>)
    /\ UNCHANGED <<earlyVars, junitVars, adfVars, parseVars, restVars>>

NextPost ==
    \/ jira_comment
    \/ post
    \/ post_tests_summary
    \/ post_tests_tc_comment
    \/ post_tests_table_comment
    \/ fix_failures_comment
    \/ post_tests_detailed

SpecPost == InitPost /\ [][NextPost]_vars

\* the length of the text a comment carries
CarriedLen(c) == c.to - c.from

\* C12: jira_comment on a body of length n posts chunks of at most
\* MAX_JIRA_COMMENT characters each, in order and without gap or overlap from the
\* first character of the body to the last, in ceil(n / MAX_JIRA_COMMENT) posts,
\* and posts nothing for an empty body.
C12_ChunksCoverBody ==
    posting.command = "jira_comment" =>
        LET n == posting.body
        IN  /\ \A i \in DOMAIN comments :
                  /\ CarriedLen(comments[i]) > 0
                  /\ CarriedLen(comments[i]) <= MAX_JIRA_COMMENT
                  /\ comments[i].from = (IF i = 1 THEN 0 ELSE comments[i - 1].to)
            /\ comments # <<>> => comments[Len(comments)].to = n
            /\ Len(comments) = (n + MAX_JIRA_COMMENT - 1) \div MAX_JIRA_COMMENT
            /\ n = 0 => comments = <<>>

\* a body one character longer than two chunks was posted in three parts
C12_Witness ==
    /\ posting.command = "jira_comment"
    /\ posting.body = 2 * MAX_JIRA_COMMENT + 1
    /\ Len(comments) = 3
    /\ CarriedLen(comments[1]) = MAX_JIRA_COMMENT
    /\ CarriedLen(comments[3]) = 1

\* C13: whatever command posted, no comment carries more than MAX_JIRA_COMMENT
\* characters of report text.
C13_NoCommentOverMax ==
    \A i \in DOMAIN comments : CarriedLen(comments[i]) <= MAX_JIRA_COMMENT

-----------------------------------------------------------------------------
(* The result file: _junit_parse and the heading run_pytests derives from it *)

MaxSuites == 2
MaxTestcases == 1

\* an attribute the element does not carry
Absent == <<"<Absent>">>

Digits10 == <<"0","1","2","3","4","5","6","7","8","9">>
DigitValue(c) == (CHOOSE i \in 1..10 : Digits10[i] = c) - 1

\* the number a digit string denotes
RECURSIVE NatOf(_, _, _)
NatOf(s, i, acc) ==
    IF i > Len(s) THEN acc ELSE NatOf(s, i + 1, acc * 10 + DigitValue(s[i]))

AllDigits(s) == \A i \in DOMAIN s : IsDigit(s[i])

Unsigned(s) == IF s # <<>> /\ s[1] \in {"+", "-"} THEN Tail(s) ELSE s
SignOf(s) == IF s # <<>> /\ s[1] = "-" THEN 0 - 1 ELSE 1

\* int(s.attrib.get(k, 0)): surrounding blanks and a sign are accepted;
\* ok = FALSE stands for ValueError
IntOf(v) ==
    IF v = Absent THEN [ok |-> TRUE, val |-> 0]
    ELSE LET t == Strip(v)
             u == Unsigned(t)
         IN  IF u # <<>> /\ AllDigits(u)
             THEN [ok |-> TRUE, val |-> SignOf(t) * NatOf(u, 1, 0)]
             ELSE [ok |-> FALSE, val |-> 0]

\* float(tc.attrib.get("time", "0") or 0) in milliseconds, for decimal notation
\* ("12", "0.5", ".5", "1."); ok = FALSE stands for ValueError
FloatMs(v) ==
    LET s == IF v = Absent THEN <<"0">> ELSE v
    IN  IF s = <<>> THEN [ok |-> TRUE, val |-> 0]
        ELSE LET t   == Strip(s)
                 u   == Unsigned(t)
                 dot == IndexOf(u, ".", 1)
                 ip  == IF dot = 0 THEN u ELSE Slice(u, 1, dot - 1)
                 fp  == IF dot = 0 THEN <<>> ELSE Slice(u, dot + 1, Len(u))
                 f3  == SubSeq(fp \o <<"0","0","0">>, 1, 3)
             IN  IF AllDigits(ip) /\ AllDigits(fp) /\ (ip # <<>> \/ fp # <<>>)
                 THEN [ok |-> TRUE,
                       val |-> SignOf(t) * (NatOf(ip, 1, 0) * 1000 + NatOf(f3, 1, 0))]
                 ELSE [ok |-> FALSE, val |-> 0]

\* a <testcase> element: attributes name, classname, time; the first child among
\* failure, error, skipped ("none": no such child), its message and its text
Testcase(name, classname, time, child, message, body) ==
    [name |-> name, classname |-> classname, time |-> time,
     child |-> child, message |-> message, body |-> body]

\* a <testsuite> element: its counter attributes and its testcase children
Testsuite(tests, failures, errors, skipped, testcases) ==
    [tests |-> tests, failures |-> failures, errors |-> errors, skipped |-> skipped,
     testcases |-> testcases]

\* the case _junit_parse appends for a testcase whose time converts
CaseOfTestcase(tc, t) ==
    LET status == IF tc.child = "none" THEN "passed" ELSE tc.child
        detail == IF tc.child \in {"failure", "error"}
                  THEN Strip(tc.message \o <<"\n">> \o tc.body)
                  ELSE IF tc.child = "skipped" THEN Strip(tc.message)
                  ELSE <<>>
    IN  RawCase(IF tc.name = Absent THEN <<>> ELSE tc.name,
                IF tc.classname = Absent THEN <<>> ELSE tc.classname,
                t, status, detail)

EmptyTotals == <<>>

Returned(totals, cases) ==
    [outcome |-> "returned", totals |-> totals, cases |-> cases]

\* the call ends with an exception instead of a result
Raised(error) ==
    [outcome |-> error, totals |-> EmptyTotals, cases |-> <<>>]

\* the loop over the testcases of a suite, from the i-th; ok = FALSE: float raised
RECURSIVE TestcaseLoop(_, _, _)
TestcaseLoop(tcs, i, cases) ==
    IF i > Len(tcs) THEN [ok |-> TRUE, cases |-> cases]
    ELSE LET t == FloatMs(tcs[i].time)
         IN  IF ~t.ok THEN [ok |-> FALSE, cases |-> cases]
             ELSE TestcaseLoop(tcs, i + 1, Append(cases, CaseOfTestcase(tcs[i], t.val)))

\* the loop over the suites, from the i-th
RECURSIVE SuiteLoop(_, _, _, _)
SuiteLoop(suites, i, totals, cases) ==
    IF i > Len(suites)
    THEN Returned([totals EXCEPT !.passed = totals.tests - totals.failures
                                            - totals.errors - totals.skipped],
                  cases)
    ELSE LET su == suites[i]
             te == IntOf(su.tests)
             fa == IntOf(su.failures)
             er == IntOf(su.errors)
             sk == IntOf(su.skipped)
         IN  IF ~(te.ok /\ fa.ok /\ er.ok /\ sk.ok) THEN Raised("ValueError")
             ELSE LET tl == TestcaseLoop(su.testcases, 1, cases)
                  IN  IF ~tl.ok THEN Raised("ValueError")
                      ELSE SuiteLoop(suites, i + 1,
                                     [tests    |-> totals.tests + te.val,
                                      failures |-> totals.failures + fa.val,
                                      errors   |-> totals.errors + er.val,
                                      skipped  |-> totals.skipped + sk.val,
                                      passed   |-> totals.passed],
                                     tl.cases)

\* the result file: absent, not well-formed XML, or a document whose root is
\* <testsuites> holding the suites or is itself the one <testsuite>
NoFile == [kind |-> "missing", suites |-> <<>>]
NotWellFormed == [kind |-> "malformed", suites |-> <<>>]
XmlDoc(root, suites) == [kind |-> root, suites |-> suites]

\* root.findall("testsuite") or root.findall(".//testsuite"): the suites below
\* the root, never the root itself
FindSuites(file) == IF file.kind = "testsuites" THEN file.suites ELSE <<>>

\* _junit_parse(junit_path)
JunitParse(file) ==
    IF file.kind = "missing" THEN Returned(EmptyTotals, <<>>)
    ELSE IF file.kind = "malformed" THEN Raised("ParseError")
    ELSE SuiteLoop(FindSuites(file), 1,
                   [tests |-> 0, failures |-> 0, errors |-> 0, skipped |-> 0, passed |-> 0],
                   <<>>)

\* the second heading of the report run_pytests writes, from the parse result
ReportHeading(res) ==
    IF res.outcome # "returned" THEN res.outcome
    ELSE IF res.totals # EmptyTotals THEN "Summary" ELSE "Test summary unavailable"

SuiteCounters ==
    {<<<<"2">>, <<"1">>, <<"0">>, <<"0">>>>,
     <<Absent, Absent, Absent, Absent>>,
     <<<<"x">>, Absent, Absent, Absent>>}

TestcaseNodes ==
    {Testcase(<<"t","c","_","0","0","1">>, <<"m">>, <<"0",".","5">>, "none", <<>>, <<>>),
     Testcase(<<"t","c","2">>, Absent, Absent, "failure", <<"b","o","o","m">>, <<"a","t"," ","x","\n">>),
     Testcase(<<"t","c","2">>, <<>>, <<>>, "skipped", <<"w","h","y"," ">>, <<>>),
     Testcase(<<"t","c","3">>, <<>>, <<"1",".","2">>, "error", <<>>, <<>>),
     Testcase(<<"t","c","3">>, <<>>, <<"a","b","c">>, "none", <<>>, <<>>)}

TestcaseLists == UNION {[1..k -> TestcaseNodes] : k \in 0..MaxTestcases}

Testsuites ==
    {Testsuite(c[1], c[2], c[3], c[4], tcs) : c \in SuiteCounters, tcs \in TestcaseLists}

XmlFiles ==
    {NoFile, NotWellFormed}
    \cup {XmlDoc("testsuites", ss) : ss \in UNION {[1..k -> Testsuites] : k \in 0..MaxSuites}}
    \cup {XmlDoc("testsuite", <<su>>) : su \in Testsuites}

InitJunit ==
    /\ jfile \in XmlFiles
    /\ jres = [call |-> "none"]
    /\ spelling = <<>> /\ parsed = PendingIds /\ mapped = Pending
    /\ junit = <<>> /\ cmd = "none" /\ agg = <<>>
    /\ fs = <<>> /\ before = <<>> /\ calls = <<>>
    /\ PostIdle /\ AdfIdle /\ ParseIdle /\ RestIdle

\* one call _junit_parse(junit_path)
_junit_parse ==
    /\ jres.call = "none"
    /\ jres' = [call |-> "_junit_parse", res |-> JunitParse(jfile), heading |-> ""]
    /\ UNCHANGED <<jfile, earlyVars, postVars, adfVars, parseVars, restVars>>

\* run_pytests after pytest has left the result file: parse it and write the
\* report with the summary heading
run_pytests ==
    /\ jres.call = "none"
    /\ LET res == JunitParse(jfile)
       IN  jres' = [call |-> "run_pytests", res |-> res, heading |-> ReportHeading(res)]
    /\ UNCHANGED <<jfile, earlyVars, postVars, adfVars, parseVars, restVars>>

NextJunit == _junit_parse \/ run_pytests

SpecJunit == InitJunit /\ [][NextJunit]_vars

\* a counter or a time of the document does not convert to a number
BadNumber(file) ==
    \E i \in DOMAIN FindSuites(file) :
        LET su == FindSuites(file)[i]
        IN  \/ \E v \in {su.tests, su.failures, su.errors, su.skipped} : ~IntOf(v).ok
            \/ \E j \in DOMAIN su.testcases : ~FloatMs(su.testcases[j].time).ok

Unreadable(file) ==
    file.kind \in {"missing", "malformed"} \/ BadNumber(file)

\* C15: on a result file that is missing, not well-formed, or carries a suite
\* counter or a case time that is not a number, _junit_parse returns empty totals
\* and no cases without raising, and run_pytests reports the summary unavailable.
C15_UnreadableGivesEmpty ==
    (jres.call # "none" /\ Unreadable(jfile)) =>
        /\ jres.res = Returned(EmptyTotals, <<>>)
        /\ jres.call = "run_pytests" => jres.heading = "Test summary unavailable"

-----------------------------------------------------------------------------
(* Document flattening: flatten_adf                                           *)

MaxDepth == 2
MaxItems == 2

\* the values a decoded JSON document is built from
NullNode == [kind |-> "null"]
StrNode(s) == [kind |-> "str", val |-> s]
\* a number or a boolean: neither str, dict nor list
OtherNode == [kind |-> "other"]
ListNode(items) == [kind |-> "list", items |-> items]
\* a mapping; NoKey: the mapping has no such key
NoKey == [kind |-> "nokey"]
DictNode(t, c) == [kind |-> "dict", text |-> t, content |-> c]

\* the outcomes of a call: a string, a value that is not a string, an exception
StrResult(s) == [outcome |-> "str", val |-> s]
NonStrResult(v) == [outcome |-> "value", val |-> v]
TypeError == [outcome |-> "TypeError"]

RECURSIVE ConcatAll(_)
ConcatAll(parts) ==
    IF parts = <<>> THEN <<>> ELSE Head(parts).val \o ConcatAll(Tail(parts))

RECURSIVE FlattenAdf(_)
\* "".join(flatten_adf(c) for c in items): every element is flattened, then
\* joined; an element that raised or is no string makes the join raise
JoinFlattened(items) ==
    LET parts == [i \in DOMAIN items |-> FlattenAdf(items[i])]
    IN  IF \A i \in DOMAIN parts : parts[i].outcome = "str"
        THEN StrResult(ConcatAll(parts))
        ELSE TypeError

\* the same join over the value c of the "content" key: a list is iterated by
\* element and a string by character; None and numbers are not iterable
JoinContent(c) ==
    CASE c.kind = "list" -> JoinFlattened(c.items)
      [] c.kind = "str"  -> StrResult(c.val)
      [] OTHER -> TypeError

\* flatten_adf(node)
FlattenAdf(n) ==
    CASE n.kind = "null" -> StrResult(<<>>)
      [] n.kind = "str"  -> StrResult(n.val)
      [] n.kind = "dict" ->
            IF n.text # NoKey
            THEN (IF n.text.kind = "str" THEN StrResult(n.text.val)
                  ELSE NonStrResult(n.text))
            ELSE JoinContent(IF n.content = NoKey THEN ListNode(<<>>) ELSE n.content)
      [] n.kind = "list" -> JoinFlattened(n.items)
      [] OTHER -> StrResult(<<>>)

Leaves == {NullNode, StrNode(<<"a">>), OtherNode}

ListsOver(S) == {ListNode(items) : items \in UNION {[1..k -> S] : k \in 0..MaxItems}}

\* the values met under the "text" key
TextValues == {NoKey, StrNode(<<"t">>), OtherNode}

\* the node trees nested at most d deep
RECURSIVE NodesOf(_)
NodesOf(d) ==
    IF d = 0 THEN Leaves
    ELSE LET below == NodesOf(d - 1)
             lists == ListsOver(below)
         IN  Leaves \cup lists
             \cup {DictNode(t, c) : t \in TextValues,
                                    c \in {NoKey, NullNode, OtherNode, StrNode(<<"c","d">>)}
                                          \cup lists}

InitAdf ==
    /\ doc \in NodesOf(MaxDepth)
    /\ flat = [outcome |-> "pending"]
    /\ spelling = <<>> /\ parsed = PendingIds /\ mapped = Pending
    /\ junit = <<>> /\ cmd = "none" /\ agg = <<>>
    /\ fs = <<>> /\ before = <<>> /\ calls = <<>>
    /\ PostIdle /\ JunitIdle /\ ParseIdle /\ RestIdle

\* one call flatten_adf(node)
flatten_adf ==
    /\ flat.outcome = "pending"
    /\ flat' = FlattenAdf(doc)
    /\ UNCHANGED <<doc, earlyVars, postVars, junitVars, parseVars, restVars>>

NextAdf == flatten_adf

SpecAdf == InitAdf /\ [][NextAdf]_vars

\* C16: whatever the node, flatten_adf does not raise and returns a string.
C16_AlwaysAString ==
    flat.outcome \in {"pending", "str"}

\* every text value is a string and every content value a list, at every depth
RECURSIVE WellFormed(_)
WellFormed(n) ==
    CASE n.kind = "list" -> \A i \in DOMAIN n.items : WellFormed(n.items[i])
      [] n.kind = "dict" ->
            /\ n.text = NoKey \/ n.text.kind = "str"
            /\ n.content = NoKey
               \/ (n.content.kind = "list" /\ WellFormed(n.content))
      [] OTHER -> TRUE

\* the text values of the tree in depth-first pre-order: a mapping's own text,
\* then its children
RECURSIVE PreOrderText(_)
PreOrderText(n) ==
    CASE n.kind = "str" -> n.val
      [] n.kind = "list" ->
            ConcatAll([i \in DOMAIN n.items |-> [val |-> PreOrderText(n.items[i])]])
      [] n.kind = "dict" ->
            (IF n.text = NoKey THEN <<>> ELSE n.text.val)
            \o (IF n.content = NoKey THEN <<>> ELSE PreOrderText(n.content))
      [] OTHER -> <<>>

\* C17: for a well-formed tree, flatten_adf returns the concatenation of all its
\* text values in depth-first pre-order; a mapping with text and children gives
\* its text followed by the flattening of its children.
C17_PreOrderConcat ==
    (flat.outcome # "pending" /\ WellFormed(doc)) =>
        flat = StrResult(PreOrderText(doc))

-----------------------------------------------------------------------------
(* The pipe-table and the vertical-block parser on texts of a few lines       *)

MaxLines == 4

\* a header line, a table row, two id lines, a blank line and a plain line
LineChoices ==
    {<<"I","D","|","S","|","T","|","E">>,
     <<"t","c","1","|"," ","a"," ","|","b","|","c"," ">>,
     <<"T","C","-","1">>,
     <<" ","t","c"," ","2">>,
     <<>>,
     <<"a">>}

ParseTexts == {JoinLines(ls) : ls \in UNION {[1..k -> LineChoices] : k \in 0..MaxLines}}

InitParse ==
    /\ intext \in ParseTexts
    /\ recs = [parser |-> "none"]
    /\ spelling = <<>> /\ parsed = PendingIds /\ mapped = Pending
    /\ junit = <<>> /\ cmd = "none" /\ agg = <<>>
    /\ fs = <<>> /\ before = <<>> /\ calls = <<>>
    /\ PostIdle /\ JunitIdle /\ AdfIdle /\ RestIdle

\* one call _parse_test_table(text)
ParseTestTable ==
    /\ recs.parser = "none"
    /\ recs' = [parser |-> "table", cases |-> _parse_test_table(intext), blocks |-> <<>>]
    /\ UNCHANGED <<intext, earlyVars, postVars, junitVars, adfVars, restVars>>

\* one call _parse_vertical_tests(text), with the lines each record was read from
ParseVerticalTests ==
    /\ recs.parser = "none"
    /\ recs' = [parser |-> "vertical", cases |-> _parse_vertical_tests(intext),
                blocks |-> IF intext = <<>> THEN <<>>
                           ELSE VerticalBlocks(SplitLines(intext), 0)]
    /\ UNCHANGED <<intext, earlyVars, postVars, junitVars, adfVars, restVars>>

\* one call _parse_minified_tests(text)
ParseMinifiedTests ==
    /\ recs.parser = "none"
    /\ recs' = [parser |-> "minified", cases |-> _parse_minified_tests(intext),
                blocks |-> <<>>]
    /\ UNCHANGED <<intext, earlyVars, postVars, junitVars, adfVars, restVars>>

NextParse == ParseTestTable \/ ParseVerticalTests \/ ParseMinifiedTests

SpecParse == InitParse /\ [][NextParse]_vars

\* the lines the pipe-table parser keeps
TableLines == StrippedNonBlank(SplitLines(intext))

\* the first line that qualifies as a header line, 0 if none
FirstHeader(lines) ==
    IF \E i \in DOMAIN lines : IsTableHeader(lines[i])
    THEN CHOOSE i \in DOMAIN lines :
            /\ IsTableHeader(lines[i])
            /\ \A k \in 1..(i - 1) : ~IsTableHeader(lines[k])
    ELSE 0

\* C18: the pipe-table parser returns, in order, one record for each line after
\* the header line that has the row shape, and nothing else: no line yields two
\* records, also when several lines qualify as header line.
C18_OneRecordPerRow ==
    recs.parser = "table" =>
        recs.cases = (IF FirstHeader(TableLines) = 0 THEN <<>>
                      ELSE TableRowsFrom(TableLines, FirstHeader(TableLines) + 1))

RawLines == SplitLines(intext)

IsIdLine(i) == IsVertTcId(Strip(RawLines[i]))

RECURSIVE IdsFrom(_, _)
\* the canonical ids of the lines of S from line i on, in source order
IdsFrom(S, i) ==
    IF i > Len(RawLines) THEN <<>>
    ELSE (IF i \in S THEN <<NormalizeTcId(Strip(RawLines[i]))>> ELSE <<>>)
         \o IdsFrom(S, i + 1)

\* C19 as claimed: every line that is exactly a test-case id starts a block, so
\* the ids of the records are the canonical ids of all id lines, in source order.
C19_EveryIdLineStartsBlock ==
    recs.parser = "vertical" =>
        Ids(recs.cases) = IdsFrom({i \in DOMAIN RawLines : IsIdLine(i)}, 1)

\* the third non-blank line after line k, 0 if fewer than three follow
ThirdAfter(k) ==
    LET S == {j \in (k + 1)..Len(RawLines) : Strip(RawLines[j]) # <<>>}
    IN  IF Cardinality(S) < 3 THEN 0
        ELSE CHOOSE j \in S : Cardinality({x \in S : x < j}) = 2

\* the id lines that are not among the three field lines of an earlier block
\* that found all its three fields
BlockStarts ==
    LET starts[i \in DOMAIN RawLines] ==
            /\ IsIdLine(i)
            /\ \A k \in 1..(i - 1) : ~(starts[k] /\ ThirdAfter(k) >= i)
    IN  {i \in DOMAIN RawLines : starts[i]}

\* C19: the records are, in source order, those of the id lines that no earlier
\* complete block (id line and three non-blank lines) has taken as a field; an
\* id line among the lines after an earlier id line starts a block of its own
\* only when fewer than three non-blank lines follow that earlier id line.
C19_UnconsumedIdLinesStartBlocks ==
    recs.parser = "vertical" => Ids(recs.cases) = IdsFrom(BlockStarts, 1)

\* an id line was taken as a field by a complete block before it and started no
\* block of its own
C19_Witness ==
    /\ recs.parser = "vertical"
    /\ \E i \in DOMAIN RawLines : IsIdLine(i) /\ i \notin BlockStarts
    /\ Len(recs.cases) >= 1
    /\ Len(recs.cases) = Cardinality(BlockStarts)

\* the lines a block reads
UsedBy(b) == {b.i, b.j1, b.j2, b.j3} \ {-1}

\* C20: no source line is read by two records, neither as a field of both nor as
\* a field of one and the id of the other, also when fewer than three non-blank
\* lines follow an id line; such a record has its missing fields empty.
C20_NoLineUsedTwice ==
    recs.parser = "vertical" =>
        /\ Len(recs.blocks) = Len(recs.cases)
        /\ \A m, n \in DOMAIN recs.blocks :
              m # n => UsedBy(recs.blocks[m]) \cap UsedBy(recs.blocks[n]) = {}
        /\ \A m \in DOMAIN recs.blocks :
              /\ recs.blocks[m].j1 = -1 => recs.cases[m].scenario = <<>>
              /\ recs.blocks[m].j2 = -1 => recs.cases[m].steps = <<>>
              /\ recs.blocks[m].j3 = -1 => recs.cases[m].expected = <<>>

\* C21: the minified parser returns, in order of occurrence, one record for each
\* test-case-id token of the text, whatever the letter case of its TC marker; the
\* scenario is the first line of the text between the token and the next one
\* (surrounding blanks removed), steps and expected are empty.
C21_OneRecordPerToken ==
    recs.parser = "minified" =>
        LET toks == MiniTokens(intext, 1)
        IN  /\ Len(recs.cases) = Len(toks)
            /\ \A k \in DOMAIN toks :
                  LET first == toks[k][1]
                      after == first + toks[k][2]
                      stop  == IF k < Len(toks) THEN toks[k + 1][1] - 1 ELSE Len(intext)
                  IN  recs.cases[k] =
                        TestCase(NormalizeTcId(Strip(Slice(intext, first, after - 1))),
                                 Strip(FirstLine(Strip(Slice(intext, after, stop)))),
                                 <<>>, <<>>)

\* ======================================================================
\* Description sections: _extract_section (SpecSection)
\* ======================================================================

\* The regular expressions of the extractor, as trees:
\*   lit  a literal, compared without regard to case (re.IGNORECASE)
\*   rep  lo..hi characters of a class, as many as possible first (greedy)
\*   star lo or more characters of a class, as many as possible first
\*   bol  ^ without re.MULTILINE: the start of the searched text only
\*   wb   \b
\*   seq  concatenation;  alt  alternatives in the order written
Lit(chars)        == [op |-> "lit", s |-> chars]
Rep(cls, lo, hi)  == [op |-> "rep", cls |-> cls, lo |-> lo, hi |-> hi]
Star(cls, lo)     == [op |-> "star", cls |-> cls, lo |-> lo]
Bol               == [op |-> "bol"]
Wb                == [op |-> "wb"]
Cat(rs)           == [op |-> "seq", rs |-> rs]
Alt(rs)           == [op |-> "alt", rs |-> rs]

SpaceCls == {" ", "\t", "\n"}
WordCls  == LowerSet \cup Digit \cup {"_"}
HashCls  == {"#"}
PunctCls == {":", "-"}

InClass(cls, c) == LowerCh(c) \in cls

RECURSIVE RunLen(_, _, _)
\* how many characters from position i on belong to the class
RunLen(cls, s, i) ==
    IF i > Len(s) \/ ~InClass(cls, s[i]) THEN 0 ELSE 1 + RunLen(cls, s, i + 1)

WordAt(s, i) == i >= 1 /\ i <= Len(s) /\ IsWord(s[i])

\* the ends i + n, ..., i + lo of a greedy repetition that can take n characters
GreedyEnds(i, n, lo) ==
    IF n < lo THEN <<>> ELSE [k \in 1..(n - lo + 1) |-> i + n - k + 1]

RECURSIVE Ends(_, _, _)
RECURSIVE SeqEnds(_, _, _, _)
RECURSIVE ChainEnds(_, _, _, _, _)
RECURSIVE AltEnds(_, _, _, _)
\* What a backtracking matcher tries for r at position i of s: the positions
\* just after the match, in the order of preference.
Ends(r, s, i) ==
    CASE r.op = "lit"  ->
           IF i + Len(r.s) - 1 <= Len(s) /\ Lower(Slice(s, i, i + Len(r.s) - 1)) = Lower(r.s)
           THEN <<i + Len(r.s)>> ELSE <<>>
      [] r.op = "rep"  -> GreedyEnds(i, Min(RunLen(r.cls, s, i), r.hi), r.lo)
      [] r.op = "star" -> GreedyEnds(i, RunLen(r.cls, s, i), r.lo)
      [] r.op = "bol"  -> IF i = 1 THEN <<i>> ELSE <<>>
      [] r.op = "wb"   -> IF WordAt(s, i - 1) # WordAt(s, i) THEN <<i>> ELSE <<>>
      [] r.op = "seq"  -> SeqEnds(r.rs, 1, s, i)
      [] r.op = "alt"  -> AltEnds(r.rs, 1, s, i)

SeqEnds(rs, k, s, i) ==
    IF k > Len(rs) THEN <<i>> ELSE ChainEnds(rs, k, s, Ends(rs[k], s, i), 1)

ChainEnds(rs, k, s, es, j) ==
    IF j > Len(es) THEN <<>>
    ELSE SeqEnds(rs, k + 1, s, es[j]) \o ChainEnds(rs, k, s, es, j + 1)

AltEnds(rs, k, s, i) ==
    IF k > Len(rs) THEN <<>> ELSE Ends(rs[k], s, i) \o AltEnds(rs, k + 1, s, i)

NoMatch == <<>>

RECURSIVE SearchFrom(_, _, _)
\* re.search / the first item of re.finditer: the leftmost position where the
\* expression matches, as <<start, end>> with the match being s[start .. end-1]
SearchFrom(r, s, i) ==
    IF i > Len(s) + 1 THEN NoMatch
    ELSE LET es == Ends(r, s, i)
         IN  IF es # <<>> THEN <<i, es[1]>> ELSE SearchFrom(r, s, i + 1)

Search(r, s) == SearchFrom(r, s, 1)

\* (?:^|\n)
LineStart == Alt(<<Bol, Lit(<<"\n">>)>>)

\* SECTION_HEADINGS
AcceptanceCriteria ==
    Cat(<<Lit(<<"a","c","c","e","p","t","a","n","c","e">>), Star(SpaceCls, 0),
          Lit(<<"c","r","i","t","e","r","i">>), Rep({"a"}, 0, 1)>>)
AC == Cat(<<Wb, Lit(<<"A","C">>), Wb>>)
TestCases ==
    Cat(<<Lit(<<"t","e","s","t">>), Star(SpaceCls, 0),
          Lit(<<"c","a","s","e">>), Rep({"s"}, 0, 1)>>)
Tests == Cat(<<Wb, Lit(<<"t","e","s","t">>), Rep({"s"}, 0, 1), Wb>>)

SectionKeys == <<"acceptance", "tests">>
SECTION_HEADINGS ==
    [k \in Range(SectionKeys) |->
        IF k = "acceptance" THEN <<AcceptanceCriteria, AC>> ELSE <<TestCases, Tests>>]

\* INLINE_TOKENS, in the order of the list
INLINE_TOKENS ==
    <<<<"acceptance", Cat(<<Lit(<<"a","c","c","e","p","t","a","n","c","e">>), Star(SpaceCls, 0),
                            Lit(<<"c","r","i","t","e","r","i","a">>)>>)>>,
      <<"tests", Cat(<<Lit(<<"t","e","s","t">>), Star(SpaceCls, 0),
                       Lit(<<"c","a","s","e","s">>)>>)>>>>

\* \s*[:\-]*\s*\n
HeadingTail == <<Star(SpaceCls, 0), Star(PunctCls, 0), Star(SpaceCls, 0), Lit(<<"\n">>)>>

\* (?:^|\n)\s*#{1,6}\s*(h)\s*[:\-]*\s*\n
HashedHead(h) ==
    Cat(<<LineStart, Star(SpaceCls, 0), Rep(HashCls, 1, 6), Star(SpaceCls, 0), h>> \o HeadingTail)
\* (?:^|\n)\s*(h)\s*[:\-]*\s*\n
PlainHead(h) == Cat(<<LineStart, Star(SpaceCls, 0), h>> \o HeadingTail)

\* sep: the hashed heads of every key, then the plain ones
Heads(keys) ==
    Alt([k \in 1..(2 * Len(keys)) |->
            IF k <= Len(keys) THEN HashedHead(keys[k]) ELSE PlainHead(keys[k - Len(keys)])])

\* (?:^|\n)\s*#\s*\w+
NextHead == Cat(<<LineStart, Star(SpaceCls, 0), Lit(<<"#">>), Star(SpaceCls, 0), Star(WordCls, 1)>>)

\* positions: for each inline token found in the text, where it first starts
Positions(text) ==
    LET found == {k \in DOMAIN INLINE_TOKENS : Search(INLINE_TOKENS[k][2], text) # NoMatch}
    IN  [key \in {INLINE_TOKENS[k][1] : k \in found} |->
            LET k == CHOOSE j \in found : INLINE_TOKENS[j][1] = key
            IN  Search(INLINE_TOKENS[k][2], text)[1]]

\* the keys of SECTION_HEADINGS whose patterns are the ones asked for, by position
Matching(keys) == {k \in DOMAIN SectionKeys : SECTION_HEADINGS[SectionKeys[k]] = keys}

\* desired: the first of them (None when there is none: Matching(keys) = {})
Desired(keys) == SectionKeys[CHOOSE k \in Matching(keys) : \A j \in Matching(keys) : k <= j]

\* piece.split("\n", 1)[-1]: what follows the first line break, the whole
\* piece when it has none
AfterFirstBreak(piece) ==
    LET nl == IndexOf(piece, "\n", 1)
    IN  IF nl = 0 THEN piece ELSE Slice(piece, nl + 1, Len(piece))

\* the inline fallback of _extract_section
InlineSection(text, keys) ==
    LET positions == Positions(text)
    IN  IF Matching(keys) # {} /\ Desired(keys) \in DOMAIN positions
        THEN LET start == positions[Desired(keys)]
                 after == {p \in {positions[k] : k \in DOMAIN positions} : p > start}
                 end   == IF after # {} THEN CHOOSE p \in after : \A q \in after : p <= q
                          ELSE Len(text) + 1
             IN  Strip(AfterFirstBreak(Slice(text, start, end - 1)))
        ELSE <<>>

_extract_section(text, keys) ==
    IF text = <<>> THEN <<>>
    ELSE LET m == Search(Heads(keys), text)
         IN  IF m # NoMatch
             THEN LET rest      == Slice(text, m[2], Len(text))
                      next_head == Search(NextHead, rest)
                      stop      == IF next_head # NoMatch THEN next_head[1] - 1 ELSE Len(rest)
                  IN  Strip(Slice(rest, 1, stop))
             ELSE InlineSection(text, keys)

\* bound: the number of lines of a description
MaxSectLines == 3

\* two headings of the tests section, a body line, a heading with one hash mark
\* and one with two, a line with each inline token, a heading of the acceptance
\* section
SectLineChoices ==
    {<<"#","#"," ","T","e","s","t","s">>,
     <<"T","e","s","t"," ","C","a","s","e","s",":">>,
     <<"b">>,
     <<"#"," ","N">>,
     <<"#","#"," ","N">>,
     <<"a","T","e","s","t"," ","C","a","s","e","s","c">>,
     <<"A","c","c","e","p","t","a","n","c","e"," ","C","r","i","t","e","r","i","a","d">>,
     <<"A","C">>}

SectionTexts ==
    {JoinLines(ls) : ls \in UNION {[1..k -> SectLineChoices] : k \in 0..MaxSectLines}}

InitSection ==
    /\ stext \in SectionTexts
    /\ section = [call |-> "none"]
    /\ spelling = <<>> /\ parsed = PendingIds /\ mapped = Pending
    /\ junit = <<>> /\ cmd = "none" /\ agg = <<>>
    /\ fs = <<>> /\ before = <<>> /\ calls = <<>>
    /\ PostIdle /\ JunitIdle /\ AdfIdle /\ ParseIdle /\ RunIdle

\* one call parse_sections_from_description(desc_text)
parse_sections_from_description ==
    /\ section.call = "none"
    /\ section' = [call |-> "parse_sections_from_description",
                   acceptance_from_desc |-> _extract_section(stext, SECTION_HEADINGS["acceptance"]),
                   tests_from_desc |-> _extract_section(stext, SECTION_HEADINGS["tests"])]
    /\ UNCHANGED <<stext, earlyVars, postVars, junitVars, adfVars, parseVars, runVars>>

NextSection == parse_sections_from_description

SpecSection == InitSection /\ [][NextSection]_vars

\* ---- properties of the section extractor ----
SectionOf(key) ==
    IF key = "acceptance" THEN section.acceptance_from_desc ELSE section.tests_from_desc

\* the inline token of a section
TokenOf(key) == INLINE_TOKENS[CHOOSE k \in DOMAIN INLINE_TOKENS : INLINE_TOKENS[k][1] = key][2]

HeadingMode(key) == Search(Heads(SECTION_HEADINGS[key]), stext) # NoMatch
InlineMode(key)  == ~HeadingMode(key) /\ Search(TokenOf(key), stext) # NoMatch

TokenStartsAt(key, p) == Ends(TokenOf(key), stext, p) # <<>>

\* where the next token of another section starts after position start, one
\* past the end of the text when there is none
NextOtherToken(key, start) ==
    LET later == {p \in (start + 1)..Len(stext) :
                     \E o \in Range(SectionKeys) \ {key} : TokenStartsAt(o, p)}
    IN  IF later = {} THEN Len(stext) + 1 ELSE CHOOSE p \in later : \A q \in later : p <= q

\* a piece without its first line: nothing is left of a piece of one line
WithoutFirstLine(piece) ==
    LET nl == IndexOf(piece, "\n", 1)
    IN  IF nl = 0 THEN <<>> ELSE Slice(piece, nl + 1, Len(piece))

\* C22: in the inline fallback the section returned is the text from the first
\* occurrence of the wanted token up to the next occurrence of another
\* section's token (or the end of the text) without its first line, the line
\* of the token label, also when that piece has no line break.
C22_InlineDropsLabelLine ==
    section.call = "parse_sections_from_description" =>
        \A key \in Range(SectionKeys) :
            InlineMode(key) =>
                LET start == Search(TokenOf(key), stext)[1]
                IN  SectionOf(key) =
                        Strip(WithoutFirstLine(Slice(stext, start, NextOtherToken(key, start) - 1)))

\* a line made of 1 to 6 hash marks followed by a word
IsHashHeadingLine(line) ==
    LET l == Slice(line, SkipSpaces(line, 1), Len(line))
        n == RunLen(HashCls, l, 1)
    IN  n >= 1 /\ n <= 6 /\ WordAt(l, SkipSpaces(l, n + 1))

\* C23: in heading mode the section returned contains no line made of 1 to 6
\* hash marks followed by a word, and the extractor returns the empty string
\* when neither the heading mode nor the inline mode matches.
C23_StopsAtNextHeading ==
    section.call = "parse_sections_from_description" =>
        \A key \in Range(SectionKeys) :
            /\ HeadingMode(key) =>
                   \A k \in DOMAIN SplitLines(SectionOf(key)) :
                       ~IsHashHeadingLine(SplitLines(SectionOf(key))[k])
            /\ (~HeadingMode(key) /\ ~InlineMode(key)) => SectionOf(key) = <<>>

\* ======================================================================
\* Test runs: run_pytests as the commands reach it (SpecRun)
\* ======================================================================

\* bound: the number of runner invocations the environment answers
MaxRuns == 2

\* what one invocation of the runner does: its exit code, what its output
\* holds, and the result file it leaves at junit_path
PytestRun(returncode, output, file) ==
    [returncode |-> returncode, output |-> output, file |-> file]

ExitCodes == {0, 1}
RunOutputs == {"2 passed", "import file mismatch", "collected 0 items"}

PassingFile ==
    XmlDoc("testsuites",
           <<Testsuite(<<"1">>, <<"0">>, <<"0">>, <<"0">>,
                       <<Testcase(<<"t","c","_","0","0","1">>, <<"m">>, <<"0",".","5">>,
                                  "none", <<>>, <<>>)>>)>>)
FailingFile ==
    XmlDoc("testsuites",
           <<Testsuite(<<"1">>, <<"1">>, <<"0">>, <<"0">>,
                       <<Testcase(<<"t","c","2">>, Absent, <<"1",".","2">>,
                                  "failure", <<"b","o","o","m">>, <<>>)>>)>>)
RunFiles == {NoFile, NotWellFormed, PassingFile, FailingFile}

PytestRuns == {PytestRun(rc, out, f) : rc \in ExitCodes, out \in RunOutputs, f \in RunFiles}

\* run_pytests, the definition in force (the later of the two in the module):
\* the k-th invocation the environment answers is its single runner
\* invocation; the result file is parsed and the report written
RunPytests(runs, k) ==
    LET r   == runs[k]
        res == JunitParse(r.file)
    IN  [first |-> k, invocations |-> 1, cleaned |-> FALSE,
         res |-> res, heading |-> ReportHeading(res), returncode |-> r.returncode]

InitRun ==
    /\ pyrun \in [before : RunFiles, runs : [1..MaxRuns -> PytestRuns]]
    /\ runlog = [command |-> "none"]
    /\ spelling = <<>> /\ parsed = PendingIds /\ mapped = Pending
    /\ junit = <<>> /\ cmd = "none" /\ agg = <<>>
    /\ fs = <<>> /\ before = <<>> /\ calls = <<>>
    /\ PostIdle /\ JunitIdle /\ AdfIdle /\ ParseIdle /\ SectIdle

\* the test command: rc = run_pytests(issue_key, report)
test ==
    /\ runlog.command = "none"
    /\ runlog' = [command |-> "test", calls |-> <<RunPytests(pyrun.runs, 1)>>]
    /\ UNCHANGED <<pyrun, earlyVars, postVars, junitVars, adfVars, parseVars, sectVars>>

\* post-tests-table: run_pytests unless run_first is off, then the result file
\* is parsed for the table
post_tests_table_run ==
    /\ runlog.command = "none"
    /\ \E run_first \in BOOLEAN :
          LET ran == IF run_first THEN <<RunPytests(pyrun.runs, 1)>> ELSE <<>>
              ok  == \A i \in DOMAIN ran : ran[i].res.outcome = "returned"
              now == IF run_first THEN pyrun.runs[1].file ELSE pyrun.before
          IN  runlog' = [command |-> "post_tests_table", calls |-> ran,
                         table_of |-> IF ok THEN JunitParse(now) ELSE Raised("ParseError")]
    /\ UNCHANGED <<pyrun, earlyVars, postVars, junitVars, adfVars, parseVars, sectVars>>

\* fix-failures: run_pytests when there is no result file yet, and once more
\* after the fix unless test_after is off
fix_failures_run ==
    /\ runlog.command = "none"
    /\ \E test_after \in BOOLEAN :
          LET pre   == IF pyrun.before.kind = "missing"
                       THEN <<RunPytests(pyrun.runs, 1)>> ELSE <<>>
              ok    == \A i \in DOMAIN pre : pre[i].res.outcome = "returned"
              again == IF ok /\ test_after
                       THEN <<RunPytests(pyrun.runs, Len(pre) + 1)>> ELSE <<>>
          IN  runlog' = [command |-> "fix_failures", calls |-> pre \o again]
    /\ UNCHANGED <<pyrun, earlyVars, postVars, junitVars, adfVars, parseVars, sectVars>>

NextRun == test \/ post_tests_table_run \/ fix_failures_run

SpecRun == InitRun /\ [][NextRun]_vars

\* the first invocation of a call exits non-zero on a collection or import mismatch
NeedsHealing(r) ==
    r.returncode # 0 /\ r.output \in {"import file mismatch", "collected 0 items"}

\* C25: every call of run_pytests made by test, post_tests_table and
\* fix_failures whose first runner invocation exits non-zero with "import file
\* mismatch" or "collected 0 items" in its output cleans the caches and invokes
\* the runner exactly once more, and reports what is parsed after the second
\* run; every other call invokes the runner exactly once and reports what is
\* parsed from the result file, whatever the exit code.
C25_HealsAndRetriesOnce ==
    runlog.command # "none" =>
        \A i \in DOMAIN runlog.calls :
            LET c == runlog.calls[i]
                r == pyrun.runs[c.first]
            IN  IF NeedsHealing(r)
                THEN /\ c.invocations = 2
                     /\ c.cleaned
                     /\ c.res = JunitParse(pyrun.runs[c.first + 1].file)
                ELSE /\ c.invocations = 1
                     /\ c.res = JunitParse(r.file)

====
